---- MODULE Spec2Model ----
(***************************************************************************)
(* Model of the FTL Python SDK tool registry and request dispatcher:       *)
(*   sdk/python/src/ftl_sdk/ftl.py       (FTL, decorator registration)     *)
(*   sdk/python/src/ftl_sdk/response.py  (ToolResponse, create_tools)      *)
(*                                                                         *)
(* Python values are records of one shape, so that any two of them can be  *)
(* compared:  cls  the runtime type name (type(v).__name__),               *)
(*            s    the text of a str / the str() form of a float or of an  *)
(*                 opaque object,                                          *)
(*            n    the number of an int, 1/0 for a bool,                   *)
(*            keys the keys of a dict in insertion order,                  *)
(*            vals the values of a dict (parallel to keys) or the items of *)
(*                 a list.                                                 *)
(***************************************************************************)
EXTENDS Integers, Sequences, FiniteSets, TLC

VARIABLES tools, tool_functions, regLog, decl, declCreated, request, response,
          value, envelope, again, out_schema, validated, builder, built,
          phases, calls, emitted, pending, awaiting,
          hint, fragment,
          slots,
          handler_class, default_tools, raised

vars == <<tools, tool_functions, regLog, decl, declCreated, request, response,
         value, envelope, again, out_schema, validated, builder, built,
         phases, calls, emitted, pending, awaiting,
         hint, fragment,
         slots,
         handler_class, default_tools, raised>>

\* The variables of the specifications of one function alone, and those of
\* the steps of a request.
pureVars == <<value, envelope, again, out_schema, validated, builder, built>>

stepVars == <<phases, calls, emitted, pending, awaiting>>

\* The variables of the specifications added for single properties.
sideVars == <<hint, fragment, slots, handler_class, default_tools, raised>>

\* The variables of the registry as its instances and handler classes see it.
registryVars == <<handler_class, default_tools, raised>>

----------------------------------------------------------------------------
(* Python values *)

PyNone == [cls |-> "NoneType", s |-> "", n |-> 0, keys |-> <<>>, vals |-> <<>>]

PyBool(b) == [cls |-> "bool", s |-> "", n |-> IF b THEN 1 ELSE 0, keys |-> <<>>, vals |-> <<>>]

PyInt(i) == [cls |-> "int", s |-> "", n |-> i, keys |-> <<>>, vals |-> <<>>]

PyFloat(txt) == [cls |-> "float", s |-> txt, n |-> 0, keys |-> <<>>, vals |-> <<>>]

PyStr(txt) == [cls |-> "str", s |-> txt, n |-> 0, keys |-> <<>>, vals |-> <<>>]

PyList(items) == [cls |-> "list", s |-> "", n |-> 0, keys |-> <<>>, vals |-> items]

PyDict(ks, vs) == [cls |-> "dict", s |-> "", n |-> 0, keys |-> ks, vals |-> vs]

\* An object of a class json cannot encode (a set, a callable, ...): its
\* class name and its str() form.
PyObj(c, txt) == [cls |-> c, s |-> txt, n |-> 0, keys |-> <<>>, vals |-> <<>>]

IsDict(v) == v.cls = "dict"

IsNone(v) == v.cls = "NoneType"

\* isinstance(v, int): bool is a subclass of int.
IsInstanceInt(v) == v.cls \in {"int", "bool"}

\* isinstance(v, (int, float))
IsInstanceNumber(v) == v.cls \in {"int", "bool", "float"}

\* Python truthiness (bool(v)).
Truthy(v) ==
    CASE v.cls = "NoneType" -> FALSE
      [] v.cls \in {"bool", "int"} -> v.n /= 0
      [] v.cls = "str" -> v.s /= ""
      [] v.cls = "list" -> v.vals /= <<>>
      [] v.cls = "dict" -> v.keys /= <<>>
      [] OTHER -> TRUE

\* key in d
DictHas(d, key) == \E i \in 1..Len(d.keys) : d.keys[i] = key

\* d[key], for a key that is present
DictAt(d, key) == d.vals[CHOOSE i \in 1..Len(d.keys) : d.keys[i] = key]

\* d.get(key, default)
DictGet(d, key, default) == IF DictHas(d, key) THEN DictAt(d, key) ELSE default

\* d[key] = v : an existing key keeps its position, a new one goes last.
DictSet(d, key, v) ==
    IF DictHas(d, key)
    THEN [d EXCEPT !.vals = [i \in 1..Len(d.vals) |->
                               IF d.keys[i] = key THEN v ELSE d.vals[i]]]
    ELSE [d EXCEPT !.keys = Append(d.keys, key), !.vals = Append(d.vals, v)]

RECURSIVE UpdateFrom(_, _, _)
\* old.update(new), from new's i-th key on
UpdateFrom(old, new, i) ==
    IF i > Len(new.keys) THEN old
    ELSE UpdateFrom(DictSet(old, new.keys[i], new.vals[i]), new, i + 1)

\* {k: v for k, v in d.items() if v is not None}
DropNone(d) ==
    LET keep == SelectSeq([i \in 1..Len(d.keys) |-> i], LAMBDA i : ~IsNone(d.vals[i]))
    IN  PyDict([j \in 1..Len(keep) |-> d.keys[keep[j]]],
               [j \in 1..Len(keep) |-> d.vals[keep[j]]])

RECURSIVE Join(_)
\* ''.join(chars)
Join(chars) == IF chars = <<>> THEN "" ELSE Head(chars) \o Join(Tail(chars))

RECURSIVE JoinWith(_, _)
\* sep.join(strs)
JoinWith(sep, strs) ==
    IF strs = <<>> THEN ""
    ELSE IF Len(strs) = 1 THEN strs[1]
    ELSE strs[1] \o sep \o JoinWith(sep, Tail(strs))

RECURSIVE PyRepr(_)
\* repr(v): what str() shows of a value inside a container.
PyRepr(v) ==
    CASE v.cls = "NoneType" -> "None"
      [] v.cls = "bool" -> IF v.n = 1 THEN "True" ELSE "False"
      [] v.cls = "int" -> ToString(v.n)
      [] v.cls = "str" -> "'" \o v.s \o "'"
      [] v.cls = "list" ->
            "[" \o JoinWith(", ", [i \in 1..Len(v.vals) |-> PyRepr(v.vals[i])]) \o "]"
      [] v.cls = "dict" ->
            "{" \o JoinWith(", ", [i \in 1..Len(v.keys) |->
                     "'" \o v.keys[i] \o "': " \o PyRepr(v.vals[i])]) \o "}"
      [] OTHER -> v.s

\* str(v)
StrOf(v) == IF v.cls = "str" THEN v.s ELSE PyRepr(v)

RECURSIVE JsonSerializable(_)
\* json.dumps(v) raises TypeError unless v is built of None, bool, int,
\* float, str, list and dict (with str keys).
JsonSerializable(v) ==
    CASE v.cls \in {"NoneType", "bool", "int", "float", "str"} -> TRUE
      [] v.cls \in {"list", "dict"} ->
            \A i \in 1..Len(v.vals) : JsonSerializable(v.vals[i])
      [] OTHER -> FALSE

RECURSIVE FirstUnserializable(_)
\* The class named by json's TypeError: the first object it cannot encode.
FirstUnserializable(v) ==
    IF v.cls \in {"list", "dict"}
    THEN LET i == CHOOSE i \in 1..Len(v.vals) :
                    /\ ~JsonSerializable(v.vals[i])
                    /\ \A j \in 1..(i - 1) : JsonSerializable(v.vals[j])
         IN  FirstUnserializable(v.vals[i])
    ELSE v.cls

JsonTypeError(v) ==
    "Object of type " \o FirstUnserializable(v) \o " is not JSON serializable"

RECURSIVE Pad(_)
Pad(level) == IF level = 0 THEN "" ELSE "  " \o Pad(level - 1)

RECURSIVE JsonIndent2(_, _)
\* json.dumps(v, indent=2) of a serializable v, at nesting depth `level`.
JsonIndent2(v, level) ==
    CASE v.cls = "NoneType" -> "null"
      [] v.cls = "bool" -> IF v.n = 1 THEN "true" ELSE "false"
      [] v.cls = "int" -> ToString(v.n)
      [] v.cls = "float" -> v.s
      [] v.cls = "str" -> "\"" \o v.s \o "\""
      [] v.cls = "list" ->
            IF v.vals = <<>> THEN "[]"
            ELSE "[\n"
                 \o JoinWith(",\n", [i \in 1..Len(v.vals) |->
                        Pad(level + 1) \o JsonIndent2(v.vals[i], level + 1)])
                 \o "\n" \o Pad(level) \o "]"
      [] v.cls = "dict" ->
            IF v.keys = <<>> THEN "{}"
            ELSE "{\n"
                 \o JoinWith(",\n", [i \in 1..Len(v.keys) |->
                        Pad(level + 1) \o "\"" \o v.keys[i] \o "\": "
                        \o JsonIndent2(v.vals[i], level + 1)])
                 \o "\n" \o Pad(level) \o "}"
      [] OTHER -> "?"

\* The outcome of an expression that may raise: a value, or the message of
\* the exception.
Ok(v) == [ok |-> TRUE, val |-> v, err |-> ""]

Raise(msg) == [ok |-> FALSE, val |-> PyNone, err |-> msg]

\* json.dumps(v, indent=2)
JsonDumpsIndent2(v) ==
    IF JsonSerializable(v) THEN Ok(PyStr(JsonIndent2(v, 0))) ELSE Raise(JsonTypeError(v))

----------------------------------------------------------------------------
(* ToolResponse helpers (response.py) *)

TextBlock(text) == PyDict(<<"type", "text">>, <<PyStr("text"), text>>)

\* ToolResponse.text(text)
ToolResponseText(text) == PyDict(<<"content">>, <<PyList(<<TextBlock(text)>>)>>)

\* An error response that lacks the isError flag.
ToolResponseErrorUnflagged(error) == PyDict(<<"content">>, <<PyList(<<TextBlock(error)>>)>>)

\* ToolResponse.error(error)
ToolResponseError(error) ==
    PyDict(<<"content", "isError">>, <<PyList(<<TextBlock(error)>>), PyBool(TRUE)>>)

\* ToolResponse.with_structured(text, structured)
ToolResponseWithStructured(text, structured) ==
    PyDict(<<"content", "structuredContent">>, <<PyList(<<TextBlock(text)>>), structured>>)

----------------------------------------------------------------------------
(* Type hints.  t is the type (or the typing origin), args its parameters: *)
(* Optional[T] is Union[T, None].                                          *)

Ty(name) == [t |-> name, args |-> <<>>]

TyNone == Ty("NoneType")

TyOptional(T) == [t |-> "Union", args |-> <<T, TyNone>>]

TyList(T) == [t |-> "List", args |-> <<T>>]

TyDict(K, V) == [t |-> "Dict", args |-> <<K, V>>]

TyUnion(A, B) == [t |-> "Union", args |-> <<A, B>>]

Schema1(ty) == PyDict(<<"type">>, <<PyStr(ty)>>)

\* A type map whose default is the null schema.
TypeMapDefaultNull(T) ==
    CASE T = Ty("str") -> Schema1("string")
      [] T = Ty("int") -> Schema1("integer")
      [] T = Ty("float") -> Schema1("number")
      [] T = Ty("bool") -> Schema1("boolean")
      [] T = Ty("list") -> Schema1("array")
      [] T = Ty("dict") -> Schema1("object")
      [] OTHER -> Schema1("null")

\* type_map.get(python_type, {"type": "object"})
TypeMap(T) ==
    CASE T = Ty("str") -> Schema1("string")
      [] T = Ty("int") -> Schema1("integer")
      [] T = Ty("float") -> Schema1("number")
      [] T = Ty("bool") -> Schema1("boolean")
      [] T = Ty("list") -> Schema1("array")
      [] T = Ty("dict") -> Schema1("object")
      [] T = TyNone -> Schema1("null")
      [] OTHER -> Schema1("object")

\* A mapper that makes every union with None nullable and does not recurse:
\* the fragment of the first alternative comes from the type map alone.
python_type_to_json_schema_flat(T) ==
    IF T.t = "Union" /\ \E i \in 1..Len(T.args) : T.args[i] = TyNone
    THEN PyDict(<<"type">>,
                <<PyList(<<DictAt(TypeMap(SelectSeq(T.args, LAMBDA a : a /= TyNone)[1]),
                                  "type"),
                           PyStr("null")>>)>>)
    ELSE IF T.t = "List" THEN Schema1("array")
    ELSE IF T.t = "Dict" THEN Schema1("object")
    ELSE TypeMap(T)

RECURSIVE python_type_to_json_schema(_)
\* FTL._python_type_to_json_schema
python_type_to_json_schema(T) ==
    LET non_none_types == SelectSeq(T.args, LAMBDA a : a /= TyNone)
        isOptional == /\ T.t = "Union"
                      /\ \E i \in 1..Len(T.args) : T.args[i] = TyNone
                      /\ Len(non_none_types) = 1
    IN  IF isOptional
        THEN LET base_schema == python_type_to_json_schema(non_none_types[1])
             IN  IF DictHas(base_schema, "type")
                 THEN DictSet(base_schema, "type",
                              PyList(<<DictAt(base_schema, "type"), PyStr("null")>>))
                 ELSE base_schema
        ELSE IF T.t = "List"
        THEN IF T.args /= <<>>
             THEN PyDict(<<"type", "items">>,
                         <<PyStr("array"), python_type_to_json_schema(T.args[1])>>)
             ELSE Schema1("array")
        ELSE IF T.t = "Dict"
        THEN Schema1("object")
        ELSE TypeMap(T)

\* Parameters of a signature: hasAnn = it has a type hint, hasDefault = it
\* has a default value (dflt).
Param(pname, ann) ==
    [pname |-> pname, hasAnn |-> TRUE, ann |-> ann, hasDefault |-> FALSE, dflt |-> PyNone]

ParamDflt(pname, ann, dflt) ==
    [pname |-> pname, hasAnn |-> TRUE, ann |-> ann, hasDefault |-> TRUE, dflt |-> dflt]

ParamBare(pname) ==
    [pname |-> pname, hasAnn |-> FALSE, ann |-> Ty("Any"), hasDefault |-> FALSE, dflt |-> PyNone]

\* _generate_input_schema setting schema["required"] without the `if required`.
generate_input_schema_required_always(params) ==
    LET kept == SelectSeq(params, LAMBDA p : p.pname /= "self")
        noDefault == SelectSeq(kept, LAMBDA p : ~p.hasDefault)
    IN  PyDict(<<"type", "properties", "required">>,
               <<PyStr("object"),
                 PyDict([i \in 1..Len(kept) |-> kept[i].pname],
                        [i \in 1..Len(kept) |->
                           python_type_to_json_schema(
                               IF kept[i].hasAnn THEN kept[i].ann ELSE Ty("Any"))]),
                 PyList([i \in 1..Len(noDefault) |-> PyStr(noDefault[i].pname)])>>)

\* FTL._generate_input_schema(signature, hints)
generate_input_schema(params) ==
    LET kept == SelectSeq(params, LAMBDA p : p.pname /= "self")
        properties == PyDict([i \in 1..Len(kept) |-> kept[i].pname],
                             [i \in 1..Len(kept) |->
                                python_type_to_json_schema(
                                    IF kept[i].hasAnn THEN kept[i].ann ELSE Ty("Any"))])
        req == SelectSeq(kept, LAMBDA p : ~p.hasDefault)
        required == [i \in 1..Len(req) |-> PyStr(req[i].pname)]
        schema == PyDict(<<"type", "properties">>, <<PyStr("object"), properties>>)
    IN  IF required /= <<>>
        THEN DictSet(schema, "required", PyList(required))
        ELSE schema

\* OutputSchemaGenerator.generate_from_type (validation.py): a scalar return
\* type is described by an object schema with the single property `result`,
\* flagged x-ftl-wrapped; any other type by its own schema fragment.
generate_from_type(T) ==
    IF T \in {Ty("str"), Ty("int"), Ty("float"), Ty("bool")}
    THEN PyDict(<<"type", "properties", "required", "x-ftl-wrapped">>,
                <<PyStr("object"),
                  PyDict(<<"result">>, <<python_type_to_json_schema(T)>>),
                  PyList(<<PyStr("result")>>),
                  PyBool(TRUE)>>)
    ELSE python_type_to_json_schema(T)

----------------------------------------------------------------------------
(* ToolContent and the ToolResult builder (response.py) *)

\* ToolContent.text / image / audio / resource: the block, with its
\* annotations when they are truthy.
WithAnnotations(content, annotations) ==
    IF Truthy(annotations) THEN DictSet(content, "annotations", annotations) ELSE content

ToolContentText(text, annotations) ==
    WithAnnotations(PyDict(<<"type", "text">>, <<PyStr("text"), text>>), annotations)

ToolContentImage(data, mime_type, annotations) ==
    WithAnnotations(PyDict(<<"type", "data", "mimeType">>,
                           <<PyStr("image"), data, mime_type>>), annotations)

ToolContentAudio(data, mime_type, annotations) ==
    WithAnnotations(PyDict(<<"type", "data", "mimeType">>,
                           <<PyStr("audio"), data, mime_type>>), annotations)

ToolContentResource(resource, annotations) ==
    WithAnnotations(PyDict(<<"type", "resource">>, <<PyStr("resource"), resource>>),
                    annotations)

\* ToolResult(): the fields __init__ sets; calls counts the builder calls
\* made on the object.
NewToolResult ==
    [content |-> <<>>, structured |-> PyNone, is_error |-> FALSE, progress |-> PyNone,
     meta |-> PyNone, calls |-> 0]

\* max(0.0, min(100.0, progress)) for an int progress
ClampProgress(progress) ==
    IF progress.n >= 100 THEN PyFloat("100.0")
    ELSE IF progress.n <= 0 THEN PyFloat("0.0")
    ELSE progress

\* A builder call c on the ToolResult b (every call returns b itself).
BuilderCall(b, c) ==
    LET appended(block) == [b EXCEPT !.content = Append(@, block), !.calls = @ + 1]
    IN  CASE c.op \in {"text", "add_text"} -> appended(ToolContentText(c.a, c.annotations))
          [] c.op = "image" -> appended(ToolContentImage(c.a, c.b, c.annotations))
          [] c.op = "audio" -> appended(ToolContentAudio(c.a, c.b, c.annotations))
          [] c.op = "resource" -> appended(ToolContentResource(c.a, c.annotations))
          [] c.op = "with_structured" -> [b EXCEPT !.structured = c.a, !.calls = @ + 1]
          [] c.op = "with_progress" ->
                [b EXCEPT !.progress = ClampProgress(c.a), !.calls = @ + 1]
          [] c.op = "with_meta" ->
                [b EXCEPT !.meta = UpdateFrom(IF IsNone(@) THEN PyDict(<<>>, <<>>) ELSE @,
                                              c.a, 1),
                          !.calls = @ + 1]
          [] c.op = "error" ->
                [b EXCEPT !.is_error = TRUE,
                          !.content = Append(@, ToolContentText(c.a, PyNone)),
                          !.structured = IF Truthy(c.b)
                                         THEN PyDict(<<"error_details">>, <<c.b>>)
                                         ELSE @,
                          !.calls = @ + 1]

\* ToolResult.build()
ToolResultBuild(b) ==
    LET Put(result, present, key, v) == IF present THEN DictSet(result, key, v) ELSE result
    IN  Put(Put(Put(Put(Put(PyDict(<<>>, <<>>),
                            b.content /= <<>>, "content", PyList(b.content)),
                        ~IsNone(b.structured), "structuredContent", b.structured),
                    b.is_error, "isError", PyBool(TRUE)),
                ~IsNone(b.progress), "progress", b.progress),
            Truthy(b.meta), "_meta", b.meta)

----------------------------------------------------------------------------
(* Output validation and envelope building (ftl.py) *)

\* FTL._validate_output_against_schema(output, schema); schema is PyNone
\* when the function declares no return type.
validate_output_against_schema(output, schema) ==
    IF ~Truthy(schema) THEN Ok(output)
    ELSE
    LET schema_type == DictGet(schema, "type", PyNone)
        wrappedBranch == /\ Truthy(DictGet(schema, "x-ftl-wrapped", PyNone))
                         /\ schema_type = PyStr("object")
        expected_primitive_schema ==
            DictGet(DictGet(schema, "properties", PyDict(<<>>, <<>>)),
                    "result", PyDict(<<>>, <<>>))
        expected_type == DictGet(expected_primitive_schema, "type", PyNone)
        Mismatch(ty) == Raise("Expected " \o ty \o ", got " \o output.cls)
        basic ==
            CASE schema_type = PyStr("string") /\ output.cls /= "str" -> Mismatch("string")
              [] schema_type = PyStr("integer") /\ ~IsInstanceInt(output) -> Mismatch("integer")
              [] schema_type = PyStr("number") /\ ~IsInstanceNumber(output) -> Mismatch("number")
              [] schema_type = PyStr("boolean") /\ output.cls /= "bool" -> Mismatch("boolean")
              [] schema_type = PyStr("object") /\ ~IsDict(output) -> Mismatch("object/dict")
              [] schema_type = PyStr("array") /\ output.cls /= "list" -> Mismatch("array/list")
              [] OTHER -> Ok(output)
    IN  IF wrappedBranch
        THEN CASE expected_type = PyStr("string") /\ output.cls /= "str" -> Mismatch("string")
               [] expected_type = PyStr("integer") /\ ~IsInstanceInt(output) -> Mismatch("integer")
               [] expected_type = PyStr("number") /\ ~IsInstanceNumber(output) -> Mismatch("number")
               [] expected_type = PyStr("boolean") /\ output.cls /= "bool" -> Mismatch("boolean")
               [] OTHER -> IF ~IsDict(output) \/ ~DictHas(output, "result")
                           THEN Ok(PyDict(<<"result">>, <<output>>))
                           ELSE basic
        ELSE basic

\* _convert_result_to_toolresult after its pass-through test: the wrapped
\* primitive, then the conversion by type; json.dumps may raise.
convert_by_type(result) ==
    IF IsDict(result) /\ DictHas(result, "result") /\ Len(result.keys) = 1
    THEN LET wrapped_value == DictAt(result, "result")
         IN  Ok(ToolResponseWithStructured(PyStr(StrOf(wrapped_value)), result))
    ELSE IF result.cls = "str"
    THEN Ok(ToolResponseText(result))
    ELSE IF result.cls \in {"dict", "list"}
    THEN LET text == JsonDumpsIndent2(result)
         IN  IF text.ok THEN Ok(ToolResponseWithStructured(text.val, result)) ELSE text
    ELSE IF IsInstanceNumber(result)
    THEN Ok(ToolResponseText(PyStr(StrOf(result))))
    ELSE IF IsNone(result)
    THEN Ok(ToolResponseText(PyStr("")))
    ELSE Ok(ToolResponseText(PyStr(StrOf(result))))

\* _convert_result_to_toolresult without the pass-through of a mapping that
\* has a content key.
convert_without_passthrough(result) == convert_by_type(result)

\* FTL._convert_result_to_toolresult(result)
convert_result_to_toolresult(result) ==
    IF IsDict(result) /\ DictHas(result, "content")
    THEN Ok(result)
    ELSE convert_by_type(result)

----------------------------------------------------------------------------
(* The functions a program registers.  body says what the function does    *)
(* when called: "sum" returns a + b, "greet" returns                        *)
(* {"name": name, "status": "active"}, "first" returns its first argument,  *)
(* "const" returns val, "raise" raises an exception with message msg.       *)

Fn(fname, doc, params, hasRet, ret, isAsync, body, val, msg) ==
    [fname |-> fname, doc |-> doc, params |-> params, hasRet |-> hasRet, ret |-> ret,
     isAsync |-> isAsync, body |-> body, val |-> val, msg |-> msg]

ContentEnvelope ==
    PyDict(<<"content", "note">>, <<PyList(<<TextBlock(PyStr("hi"))>>), PyInt(1)>>)

FuncIds ==
    {"add_numbers", "get_user_info", "boom", "bad_int", "wrapped", "passthru",
     "opt", "method", "unser", "is_flag", "afetch"}

Func(fid) ==
    CASE fid = "add_numbers" ->
            Fn("add_numbers", PyStr("Add two numbers."),
               <<Param("a", Ty("int")), Param("b", Ty("int"))>>,
               TRUE, Ty("int"), FALSE, "sum", PyNone, "")
      [] fid = "get_user_info" ->
            Fn("get_user_info", PyStr("Get user information."),
               <<Param("name", Ty("str"))>>,
               TRUE, Ty("dict"), FALSE, "greet", PyNone, "")
      [] fid = "boom" ->
            Fn("boom", PyNone, <<>>, TRUE, Ty("str"), FALSE, "raise", PyNone, "boom")
      [] fid = "bad_int" ->
            Fn("bad_int", PyNone, <<>>, TRUE, Ty("int"), FALSE, "const", PyStr("oops"), "")
      [] fid = "wrapped" ->
            Fn("wrapped", PyNone, <<>>, TRUE, TyDict(Ty("str"), Ty("int")), FALSE, "const",
               PyDict(<<"result">>, <<PyInt(5)>>), "")
      [] fid = "passthru" ->
            Fn("passthru", PyStr("Pre-built envelope."), <<>>, FALSE, Ty("Any"), FALSE,
               "const", ContentEnvelope, "")
      [] fid = "opt" ->
            Fn("opt", PyNone,
               <<ParamDflt("x", Ty("int"), PyInt(0)),
                 ParamDflt("label", TyOptional(Ty("str")), PyNone)>>,
               FALSE, Ty("Any"), FALSE, "first", PyNone, "")
      [] fid = "method" ->
            Fn("method", PyNone,
               <<ParamBare("self"), Param("q", TyList(Ty("int"))), ParamBare("extra")>>,
               TRUE, Ty("list"), FALSE, "const", PyList(<<PyInt(1), PyInt(2)>>), "")
      [] fid = "unser" ->
            Fn("unser", PyNone, <<>>, TRUE, Ty("dict"), FALSE, "const",
               PyDict(<<"seen">>, <<PyObj("set", "{1}")>>), "")
      [] fid = "is_flag" ->
            Fn("is_flag", PyNone, <<ParamDflt("number", Ty("int"), PyInt(4))>>,
               TRUE, Ty("bool"), FALSE, "const", PyBool(TRUE), "")
      [] fid = "afetch" ->
            Fn("afetch", PyStr("Fetch."),
               <<Param("name", Ty("str")), ParamDflt("retries", Ty("int"), PyInt(3))>>,
               TRUE, Ty("str"), TRUE, "first", PyNone, "")

\* a + b
PyAdd(a, b) ==
    IF a.cls \in {"int", "bool"} /\ b.cls \in {"int", "bool"} THEN Ok(PyInt(a.n + b.n))
    ELSE IF a.cls = "str" /\ b.cls = "str" THEN Ok(PyStr(a.s \o b.s))
    ELSE Raise("unsupported operand type(s) for +: '" \o a.cls \o "' and '" \o b.cls \o "'")

\* The names of a TypeError for missing arguments: 'a' / 'a' and 'b' /
\* 'a', 'b', and 'c'.
QuotedNames(names) ==
    LET q(i) == "'" \o names[i] \o "'"
        n == Len(names)
    IN  IF n = 1 THEN q(1)
        ELSE IF n = 2 THEN q(1) \o " and " \o q(2)
        ELSE JoinWith(", ", [i \in 1..(n - 1) |-> q(i)]) \o ", and " \o q(n)

\* func(**input_data) for the function f: the keyword arguments are bound
\* to the parameters (TypeError on a non-mapping, an unexpected or a missing
\* argument), then the body runs.
CallBound(f, input_data) ==
    LET names == {f.params[i].pname : i \in 1..Len(f.params)}
        unexpected == SelectSeq(input_data.keys, LAMBDA k : k \notin names)
        missing == SelectSeq(f.params,
                             LAMBDA p : ~p.hasDefault /\ ~DictHas(input_data, p.pname))
        Arg(i) == DictGet(input_data, f.params[i].pname, f.params[i].dflt)
    IN  IF ~IsDict(input_data)
        THEN Raise(f.fname \o "() argument after ** must be a mapping, not " \o input_data.cls)
        ELSE IF unexpected /= <<>>
        THEN Raise(f.fname \o "() got an unexpected keyword argument '"
                   \o unexpected[1] \o "'")
        ELSE IF missing /= <<>>
        THEN Raise(f.fname \o "() missing " \o ToString(Len(missing))
                   \o " required positional argument"
                   \o (IF Len(missing) = 1 THEN ": " ELSE "s: ")
                   \o QuotedNames([i \in 1..Len(missing) |-> missing[i].pname]))
        ELSE CASE f.body = "sum" -> PyAdd(Arg(1), Arg(2))
               [] f.body = "greet" ->
                     Ok(PyDict(<<"name", "status">>, <<Arg(1), PyStr("active")>>))
               [] f.body = "first" -> Ok(Arg(1))
               [] f.body = "const" -> Ok(f.val)
               [] f.body = "raise" -> Raise(f.msg)

CallFunction(fid, input_data) == CallBound(Func(fid), input_data)

\* A function object: its identity and the variables it closes over.
Closure(fid, captured) ==
    [cls |-> "function", s |-> fid, n |-> 0, keys |-> <<>>, vals |-> captured]

\* The steps of the wrapper's try block after the call, each on the outcome
\* of the step before: an exception skips to the except clause.
WrapperValidate(result, output_schema) ==
    IF result.ok THEN validate_output_against_schema(result.val, output_schema) ELSE result

WrapperConvert(validated_result) ==
    IF validated_result.ok THEN convert_result_to_toolresult(validated_result.val)
    ELSE validated_result

WrapperReturn(converted) ==
    IF converted.ok
    THEN [env |-> converted.val, caught |-> FALSE]
    ELSE [env |-> ToolResponseError(PyStr("Tool execution failed: " \o converted.err)),
          caught |-> TRUE]

\* The handler FTL._create_handler_wrapper(func, hints, output_schema)
\* returns, applied to input_data (wrapper / async_wrapper run to the end):
\* the envelope, and whether the except clause built it.
HandlerWrapper(fid, output_schema, input_data) ==
    WrapperReturn(WrapperConvert(WrapperValidate(CallFunction(fid, input_data),
                                                 output_schema)))

----------------------------------------------------------------------------
(* Registration through the decorator (FTL.tool) *)

\* The number of decorator registrations a run makes.
MaxRegs == 2

\* The tool_definition FTL.tool's decorator builds for f; name, description
\* and annotations are the decorator's keyword arguments (PyNone when not
\* given).
build_definition(fid, f, name, description, annotations, output_schema) ==
    LET tool_name == IF Truthy(name) THEN name ELSE PyStr(f.fname)
        tool_description ==
            IF Truthy(description) THEN description
            ELSE IF Truthy(f.doc) THEN f.doc ELSE PyStr("")
        input_schema == generate_input_schema(f.params)
        definition ==
            PyDict(<<"name", "description", "inputSchema", "annotations", "handler">>,
                   <<tool_name, tool_description, input_schema, annotations,
                     Closure(fid, <<output_schema>>)>>)
    IN  IF ~IsNone(output_schema)
        THEN DictSet(definition, "outputSchema", output_schema)
        ELSE definition

\* return_type = hints.get('return', None) and the output schema made of it
output_schema_of(f) == IF f.hasRet THEN generate_from_type(f.ret) ELSE PyNone

tool_definition(fid, name, description, annotations) ==
    build_definition(fid, Func(fid), name, description, annotations,
                     output_schema_of(Func(fid)))

\* A registration that updates the definition already stored under the name
\* (self._tools[tool_name].update(tool_definition)) instead of replacing it.
StoreToolMerging(registry, tool_name, definition) ==
    IF DictHas(registry, tool_name)
    THEN DictSet(registry, tool_name, UpdateFrom(DictAt(registry, tool_name), definition, 1))
    ELSE DictSet(registry, tool_name, definition)

\* A registration that takes the name out of the table and puts it back at
\* the end (del self._tools[tool_name] before the assignment).
StoreToolAtEnd(registry, tool_name, definition) ==
    LET kept == SelectSeq([i \in 1..Len(registry.keys) |-> i],
                          LAMBDA i : registry.keys[i] /= tool_name)
    IN  [registry EXCEPT
            !.keys = Append([k \in 1..Len(kept) |-> registry.keys[kept[k]]], tool_name),
            !.vals = Append([k \in 1..Len(kept) |-> registry.vals[kept[k]]], definition)]

\* self._tools[tool_name] = tool_definition
StoreTool(registry, tool_name, definition) == DictSet(registry, tool_name, definition)

\* The decorator calls of the programs modelled: every function bare
\* (@ftl.tool), and three parametrized uses.
DecoratorCalls ==
    {[fid |-> f, name |-> PyNone, description |-> PyNone, annotations |-> PyNone] :
        f \in FuncIds \ {"is_flag"}}
    \cup
    {[fid |-> "opt", name |-> PyStr("add_numbers"), description |-> PyNone,
      annotations |-> PyNone],
     [fid |-> "get_user_info", name |-> PyNone, description |-> PyStr("custom"),
      annotations |-> PyDict(<<"priority">>, <<PyStr("high")>>)],
     [fid |-> "passthru", name |-> PyNone, description |-> PyNone,
      annotations |-> PyDict(<<"tags">>, <<PyObj("set", "{'a'}")>>)]}

----------------------------------------------------------------------------
(* Requests and responses *)

\* A path is the sequence of its pieces: each is the character "/" or a
\* run of characters without "/".
Paths ==
    {<<>>, <<"/">>, <<"/", "unknown">>, <<"add_numbers">>, <<"/", "/", "add_numbers">>}

\* The paths of the tools a program registers with the decorator.
ToolPaths == {<<"/", f>> : f \in FuncIds \ {"is_flag"}}

\* The paths of the tools, and of the keys, of the mappings given to
\* create_tools.
DeclPaths ==
    {<<"/", n>> : n \in {"echo", "reverse_text", "reverseText", "reverse", "fail",
                          "nohandler", "rawset"}}

Methods == {"GET", "POST", "DELETE"}

Bodies == {"", "{}", "{\"a\": 2, \"b\": 3}", "{\"name\": \"Alice\"}", "not json", "[1]"}

RequestsOn(paths) ==
    {[method |-> m, uri |-> p, body |-> ""] : m \in Methods \ {"POST"}, p \in paths}
    \cup {[method |-> "POST", uri |-> p, body |-> b] : p \in paths, b \in Bodies}

Requests == RequestsOn(Paths \cup ToolPaths)

DeclRequests == RequestsOn(Paths \cup DeclPaths)

NoRequest == [method |-> "", uri |-> <<>>, body |-> "", via |-> "none"]

\* json.loads(body), on the bodies of the model.
JsonLoads(body) ==
    CASE body = "{}" -> Ok(PyDict(<<>>, <<>>))
      [] body = "{\"a\": 2, \"b\": 3}" -> Ok(PyDict(<<"a", "b">>, <<PyInt(2), PyInt(3)>>))
      [] body = "{\"name\": \"Alice\"}" -> Ok(PyDict(<<"name">>, <<PyStr("Alice")>>))
      [] body = "[1]" -> Ok(PyList(<<PyInt(1)>>))
      [] OTHER -> Raise("Expecting value: line 1 column 1 (char 0)")

RECURSIVE JsonCompact(_)
\* The text json.dumps(v) gives for a serializable v.
JsonCompact(v) ==
    CASE v.cls = "NoneType" -> "null"
      [] v.cls = "bool" -> IF v.n = 1 THEN "true" ELSE "false"
      [] v.cls = "int" -> ToString(v.n)
      [] v.cls = "float" -> v.s
      [] v.cls = "str" -> "\"" \o v.s \o "\""
      [] v.cls = "list" ->
            "[" \o JoinWith(", ", [i \in 1..Len(v.vals) |-> JsonCompact(v.vals[i])]) \o "]"
      [] v.cls = "dict" ->
            "{" \o JoinWith(", ", [i \in 1..Len(v.keys) |->
                     "\"" \o v.keys[i] \o "\": " \o JsonCompact(v.vals[i])]) \o "}"
      [] OTHER -> "?"

\* json.dumps(v)
JsonDumps(v) ==
    IF JsonSerializable(v) THEN Ok(PyStr(JsonCompact(v))) ELSE Raise(JsonTypeError(v))

\* What handle_request did: the Response it returned (status, headers, body:
\* the JSON text; json: the document the text encodes), or the exception that
\* left it (raised), the functions it called (invoked), whether it parsed the
\* body (parsed) and whether it ran a coroutine to completion (awaited).
Outcome(status, headers, doc, invoked, parsed, awaited) ==
    [status |-> status, headers |-> headers, body |-> JsonCompact(doc), json |-> doc,
     raised |-> "", invoked |-> invoked, parsed |-> parsed, awaited |-> awaited]

Escaped(msg) ==
    [status |-> 0, headers |-> PyDict(<<>>, <<>>), body |-> "", json |-> PyNone,
     raised |-> msg, invoked |-> <<>>, parsed |-> FALSE, awaited |-> FALSE]

NoResponse == Escaped("")

JsonHeaders == PyDict(<<"content-type">>, <<PyStr("application/json")>>)

\* The "Method not allowed" answer both dispatchers end with.
MethodNotAllowed ==
    Outcome(405,
            PyDict(<<"content-type", "allow">>,
                   <<PyStr("application/json"), PyStr("GET, POST")>>),
            PyDict(<<"error">>,
                   <<PyDict(<<"code", "message">>,
                            <<PyInt(-32601), PyStr("Method not allowed")>>)>>),
            <<>>, FALSE, FALSE)

RECURSIVE LStripSlash(_)
\* path.lstrip('/')
LStripSlash(path) ==
    IF path /= <<>> /\ Head(path) = "/" THEN LStripSlash(Tail(path)) ELSE path

NotFound(tool_name) ==
    Outcome(404, JsonHeaders,
            ToolResponseError(PyStr("Tool '" \o tool_name \o "' not found")),
            <<>>, FALSE, FALSE)

ExecutionFailed(msg, invoked, parsed, awaited) ==
    Outcome(400, JsonHeaders, ToolResponseError(PyStr("Tool execution failed: " \o msg)),
            invoked, parsed, awaited)

----------------------------------------------------------------------------
(* The dispatcher FTL.create_handler() returns *)

\* The GET / branch: the metadata of every tool of the registry.
ftl_list_tools(registry) ==
    LET tool_metadata(i) ==
            LET tool == registry.vals[i]
                item == PyDict(<<"name", "description", "inputSchema", "annotations">>,
                               <<PyStr(registry.keys[i]),
                                 DictGet(tool, "description", PyStr("")),
                                 DictGet(tool, "inputSchema", Schema1("object")),
                                 DictGet(tool, "annotations", PyNone)>>)
            IN  IF DictHas(tool, "outputSchema")
                THEN DictSet(item, "outputSchema", DictAt(tool, "outputSchema"))
                ELSE item
        metadata == [i \in 1..Len(registry.keys) |-> tool_metadata(i)]
        clean_metadata == PyList([i \in 1..Len(metadata) |-> DropNone(metadata[i])])
    IN  IF JsonSerializable(clean_metadata)
        THEN Outcome(200, JsonHeaders, clean_metadata, <<>>, FALSE, FALSE)
        ELSE Escaped(JsonTypeError(clean_metadata))

\* The try block of the POST branch, for a tool that is registered.
ftl_respond(result, fid, awaited) ==
    IF JsonSerializable(result)
    THEN Outcome(200, JsonHeaders, result, <<fid>>, TRUE, awaited)
    ELSE ExecutionFailed(JsonTypeError(result), <<fid>>, TRUE, awaited)

\* handler(input_data), run to completion when it is a coroutine.
ftl_call_handler(handler, input_data) ==
    ftl_respond(HandlerWrapper(handler.s, handler.vals[1], input_data).env,
                handler.s, Func(handler.s).isAsync)

ftl_parsed(handler, input_data) ==
    IF ~input_data.ok
    THEN ExecutionFailed(input_data.err, <<>>, TRUE, FALSE)
    ELSE ftl_call_handler(handler, input_data.val)

ftl_execute(registry, tool_name, body) ==
    ftl_parsed(DictAt(DictAt(registry, tool_name), "handler"),
               JsonLoads(IF body /= "" THEN body ELSE "{}"))

\* handle_request reporting the raw path, not the stripped name, in its 404.
ftl_handle_request_rawname(registry, r) ==
    LET tool_name == Join(LStripSlash(r.uri))
    IN  IF r.method = "GET" /\ (r.uri = <<"/">> \/ r.uri = <<>>)
        THEN ftl_list_tools(registry)
        ELSE IF r.method = "POST"
        THEN IF ~DictHas(registry, tool_name)
             THEN NotFound(Join(r.uri))
             ELSE ftl_execute(registry, tool_name, r.body)
        ELSE MethodNotAllowed

\* handle_request listing the tools on a GET of any path.
ftl_handle_request_anyget(registry, r) ==
    LET tool_name == Join(LStripSlash(r.uri))
    IN  IF r.method = "GET"
        THEN ftl_list_tools(registry)
        ELSE IF r.method = "POST"
        THEN IF ~DictHas(registry, tool_name)
             THEN NotFound(tool_name)
             ELSE ftl_execute(registry, tool_name, r.body)
        ELSE MethodNotAllowed

\* IncomingHandler.handle_request(request) of FTL.create_handler
ftl_handle_request(registry, r) ==
    LET path == r.uri
        method == r.method
        tool_name == Join(LStripSlash(path))
    IN  IF method = "GET" /\ (path = <<"/">> \/ path = <<>>)
        THEN ftl_list_tools(registry)
        ELSE IF method = "POST"
        THEN IF ~DictHas(registry, tool_name)
             THEN NotFound(tool_name)
             ELSE ftl_execute(registry, tool_name, r.body)
        ELSE MethodNotAllowed

----------------------------------------------------------------------------
(* The dispatcher create_tools(tools) returns (response.py) *)

Uppers == <<"A", "B", "C", "D", "E", "F", "G", "H", "I", "J", "K", "L", "M",
            "N", "O", "P", "Q", "R", "S", "T", "U", "V", "W", "X", "Y", "Z">>

Lowers == <<"a", "b", "c", "d", "e", "f", "g", "h", "i", "j", "k", "l", "m",
            "n", "o", "p", "q", "r", "s", "t", "u", "v", "w", "x", "y", "z">>

\* char.isupper(), on ASCII
IsUpper(c) == \E i \in 1..Len(Uppers) : Uppers[i] = c

\* char.lower(), on ASCII
Lower(c) == IF IsUpper(c) THEN Lowers[CHOOSE i \in 1..Len(Uppers) : Uppers[i] = c] ELSE c

RECURSIVE camel_from(_, _)
camel_from(name, i) ==
    IF i > Len(name) THEN <<>>
    ELSE (IF IsUpper(name[i]) /\ i > 1 THEN <<"_">> ELSE <<>>)
         \o <<Lower(name[i])>> \o camel_from(name, i + 1)

\* _camel_to_snake(name); name is the sequence of its characters.
camel_to_snake(name) == Join(camel_from(name, 1))

\* func(input_data) for the function f: the one positional argument is bound
\* to the first parameter (TypeError when there is none, or when another
\* parameter has no default), then the body runs.
CallPositional(f, input_data) ==
    LET missing == SelectSeq(Tail(f.params), LAMBDA p : ~p.hasDefault)
        Arg(i) == IF i = 1 THEN input_data ELSE f.params[i].dflt
    IN  IF f.params = <<>>
        THEN Raise(f.fname \o "() takes 0 positional arguments but 1 was given")
        ELSE IF missing /= <<>>
        THEN Raise(f.fname \o "() missing " \o ToString(Len(missing))
                   \o " required positional argument"
                   \o (IF Len(missing) = 1 THEN ": " ELSE "s: ")
                   \o QuotedNames([i \in 1..Len(missing) |-> missing[i].pname]))
        ELSE CASE f.body = "sum" -> PyAdd(Arg(1), Arg(2))
               [] f.body = "greet" ->
                     Ok(PyDict(<<"name", "status">>, <<Arg(1), PyStr("active")>>))
               [] f.body = "first" -> Ok(Arg(1))
               [] f.body = "const" -> Ok(f.val)
               [] f.body = "raise" -> Raise(f.msg)

\* handler(input_data) for the handlers the declarative definitions name:
\* the parsed body is the handler's one positional argument.
DeclHandlerCall(hid, input_data) ==
    CASE hid \in FuncIds -> CallPositional(Func(hid), input_data)
      [] hid = "echo" ->
            IF ~IsDict(input_data)
            THEN Raise(input_data.cls \o " indices must be integers or slices, not str")
            ELSE IF ~DictHas(input_data, "message")
            THEN Raise("'message'")
            ELSE Ok(ToolResponseText(PyStr("Echo: " \o StrOf(DictAt(input_data, "message")))))
      [] hid = "reversed" -> Ok(ToolResponseText(PyStr("reversed")))
      [] hid = "failing_handler" -> Raise("Test error")
      [] hid = "rawset" -> Ok(PyObj("set", "{1}"))

\* An effective name that is always derived from the key: the explicit name
\* of the definition is not looked at.
effective_name_derived(entry) == PyStr(camel_to_snake(entry.key))

\* tool.get("name", _camel_to_snake(key))
effective_name(entry) == DictGet(entry.def, "name", PyStr(camel_to_snake(entry.key)))

\* The GET / branch.
decl_list_tools(mapping) ==
    LET item(i) ==
            LET tool == mapping[i].def
            IN  PyDict(<<"name", "title", "description", "inputSchema", "outputSchema",
                         "annotations", "_meta">>,
                       <<effective_name(mapping[i]),
                         DictGet(tool, "title", PyNone),
                         DictGet(tool, "description", PyStr("")),
                         DictGet(tool, "inputSchema", Schema1("object")),
                         DictGet(tool, "outputSchema", PyNone),
                         DictGet(tool, "annotations", PyNone),
                         DictGet(tool, "_meta", PyNone)>>)
        clean_metadata == PyList([i \in 1..Len(mapping) |-> DropNone(item(i))])
    IN  IF JsonSerializable(clean_metadata)
        THEN Outcome(200, JsonHeaders, clean_metadata, <<>>, FALSE, FALSE)
        ELSE Escaped(JsonTypeError(clean_metadata))

\* The try block of the POST branch, for the entry found.
decl_respond(result, hid) ==
    IF ~result.ok
    THEN ExecutionFailed(result.err, <<hid>>, TRUE, FALSE)
    ELSE IF JsonSerializable(result.val)
    THEN Outcome(200, JsonHeaders, result.val, <<hid>>, TRUE, FALSE)
    ELSE ExecutionFailed(JsonTypeError(result.val), <<hid>>, TRUE, FALSE)

decl_parsed(tool_entry, input_data) ==
    IF ~input_data.ok
    THEN ExecutionFailed(input_data.err, <<>>, TRUE, FALSE)
    ELSE IF ~DictHas(tool_entry, "handler")
    THEN ExecutionFailed("'handler'", <<>>, TRUE, FALSE)
    ELSE decl_respond(DeclHandlerCall(DictAt(tool_entry, "handler").s, input_data.val),
                      DictAt(tool_entry, "handler").s)

decl_execute(tool_entry, body) ==
    decl_parsed(tool_entry, JsonLoads(IF body /= "" THEN body ELSE "{}"))

\* IncomingHandler.handle_request(request) of create_tools
decl_handle_request(mapping, r) ==
    LET path == r.uri
        method == r.method
        tool_name == Join(LStripSlash(path))
        matches == SelectSeq(mapping, LAMBDA e : effective_name(e) = PyStr(tool_name))
    IN  IF method = "GET" /\ (path = <<"/">> \/ path = <<>>)
        THEN decl_list_tools(mapping)
        ELSE IF method = "POST"
        THEN IF matches = <<>>
             THEN NotFound(tool_name)
             ELSE decl_execute(matches[1].def, r.body)
        ELSE MethodNotAllowed

Entry(key, def) == [key |-> key, def |-> def]

EchoSchema ==
    PyDict(<<"type", "properties", "required">>,
           <<PyStr("object"),
             PyDict(<<"message">>, <<Schema1("string")>>),
             PyList(<<PyStr("message")>>)>>)

\* The mappings the modelled programs pass to create_tools.
DeclMappings ==
    { <<>>,
      <<Entry(<<"e", "c", "h", "o">>,
              PyDict(<<"description", "inputSchema", "handler">>,
                     <<PyStr("Echo the input"), EchoSchema, Closure("echo", <<>>)>>))>>,
      <<Entry(<<"r", "e", "v", "e", "r", "s", "e", "T", "e", "x", "t">>,
              PyDict(<<"description", "handler">>,
                     <<PyStr("Reverse text"), Closure("reversed", <<>>)>>)),
        Entry(<<"f", "a", "i", "l">>,
              PyDict(<<"description", "handler">>,
                     <<PyStr("Failing tool"), Closure("failing_handler", <<>>)>>))>>,
      <<Entry(<<"r", "e", "v", "e", "r", "s", "e", "T", "e", "x", "t">>,
              PyDict(<<"name", "description", "handler">>,
                     <<PyStr("reverse"), PyStr("Reverse text"),
                       Closure("reversed", <<>>)>>)),
        Entry(<<"r", "a", "w", "s", "e", "t">>,
              PyDict(<<"description", "annotations", "handler">>,
                     <<PyStr("Returns a set"),
                       PyDict(<<"readOnlyHint">>, <<PyBool(TRUE)>>),
                       Closure("rawset", <<>>)>>))>>,
      <<Entry(<<"n", "o", "h", "a", "n", "d", "l", "e", "r">>,
              PyDict(<<"description">>, <<PyStr("No handler")>>)),
        Entry(<<"e", "c", "h", "o">>,
              PyDict(<<"description", "annotations", "handler">>,
                     <<PyStr("Echo"), PyDict(<<"tags">>, <<PyObj("set", "{'a'}")>>),
                       Closure("echo", <<>>)>>))>>,
      <<Entry(<<"r", "e", "v", "e", "r", "s", "e", "T", "e", "x", "t">>,
              PyDict(<<"description", "handler">>,
                     <<PyStr("Reverse text"), Closure("reversed", <<>>)>>)),
        Entry(<<"r", "e", "v", "e", "r", "s", "e", "_", "t", "e", "x", "t">>,
              PyDict(<<"description", "handler">>,
                     <<PyStr("Reverse text again"), Closure("echo", <<>>)>>)),
        Entry(<<"e", "c", "h", "o">>,
              PyDict(<<"name", "description", "handler">>,
                     <<PyStr("reverse_text"), PyStr("Echo"), Closure("echo", <<>>)>>))>>,
      <<Entry(<<"a", "d", "d", "_", "n", "u", "m", "b", "e", "r", "s">>,
              PyDict(<<"description", "handler">>,
                     <<PyStr("Add two numbers."), Closure("add_numbers", <<>>)>>))>> }

----------------------------------------------------------------------------
(* The state machine.  tools and tool_functions are FTL._tools and          *)
(* FTL._tool_functions; regLog is the history of the decorator calls made;  *)
(* decl is the mapping given to create_tools (declCreated: it was called);  *)
(* request and response are the exchange being made with the program as it  *)
(* is now (one request is served at a time): delivery and registration      *)
(* clear them.  value, envelope and again belong to the specification of   *)
(* the envelope builder alone (SpecEnvelope), out_schema and validated to   *)
(* that of output validation (SpecValidate), builder and built to that of   *)
(* the ToolResult builder (SpecBuilder).  phases, calls, emitted, pending   *)
(* and awaiting belong to the specification of the steps of one request     *)
(* (SpecSteps): the phases the request went through, the number of calls of *)
(* the tool's function, the number of responses returned, the outcome of    *)
(* the function once it has run, and whether the handler's coroutine is     *)
(* suspended at its await.                                                  *)

EmptyDict == PyDict(<<>>, <<>>)

\* The place of a result that has not been computed.
NotRun == Raise("not run")

Init ==
    /\ tools = EmptyDict
    /\ tool_functions = EmptyDict
    /\ regLog = <<>>
    /\ decl = <<>>
    /\ declCreated = FALSE
    /\ request = NoRequest
    /\ response = NoResponse
    /\ value = PyNone
    /\ envelope = NotRun
    /\ again = NotRun
    /\ out_schema = PyNone
    /\ validated = NotRun
    /\ builder = NewToolResult
    /\ built = NotRun
    /\ phases = <<>>
    /\ calls = 0
    /\ emitted = 0
    /\ pending = NotRun
    /\ awaiting = FALSE
    /\ hint = Ty("Any")
    /\ fragment = NotRun
    /\ slots = <<>>
    /\ handler_class = [made |-> FALSE, seen |-> <<>>]
    /\ default_tools = <<>>
    /\ raised = NotRun

\* @ftl.tool / @ftl.tool(name=..., description=..., annotations=...) on f
RegisterDefinition(fid, definition) ==
    /\ tools' = StoreTool(tools, DictAt(definition, "name").s, definition)
    /\ tool_functions' =
           DictSet(tool_functions, DictAt(definition, "name").s, Closure(fid, <<>>))

\* A decorator that returns the wrapped form it stored as the handler.
decorator_returns_handler(fid, definition) == DictAt(definition, "handler")

\* return f: what the decorator gives back, the value the decorated name is
\* bound to.
decorator_returns(fid, definition) == Closure(fid, <<>>)

\* A decorator call as the history keeps it: the call and what it returned.
Logged(call) ==
    [fid |-> call.fid, name |-> call.name, description |-> call.description,
     annotations |-> call.annotations,
     returned |-> decorator_returns(call.fid,
                      tool_definition(call.fid, call.name, call.description,
                                      call.annotations))]

Register(call) ==
    /\ ~declCreated
    /\ Len(regLog) < MaxRegs
    /\ RegisterDefinition(call.fid,
           tool_definition(call.fid, call.name, call.description, call.annotations))
    /\ regLog' = Append(regLog, Logged(call))
    /\ request' = NoRequest
    /\ response' = NoResponse
    /\ UNCHANGED <<decl, declCreated, value, envelope, again, out_schema, validated, builder, built>>
    /\ UNCHANGED stepVars
    /\ UNCHANGED sideVars

\* Handler = create_tools(mapping)
CreateTools(mapping) ==
    /\ regLog = <<>>
    /\ ~declCreated
    /\ decl' = mapping
    /\ declCreated' = TRUE
    /\ request' = NoRequest
    /\ response' = NoResponse
    /\ UNCHANGED <<tools, tool_functions, regLog, value, envelope, again, out_schema, validated, builder, built>>
    /\ UNCHANGED stepVars
    /\ UNCHANGED sideVars

\* A request served by the handler class of FTL.create_handler()
HandleRequestFTL(r) ==
    /\ ~declCreated
    /\ request = NoRequest
    /\ request' = [method |-> r.method, uri |-> r.uri, body |-> r.body, via |-> "ftl"]
    /\ response' = ftl_handle_request(tools, r)
    /\ UNCHANGED <<tools, tool_functions, regLog, decl, declCreated, value, envelope, again, out_schema, validated, builder, built>>
    /\ UNCHANGED stepVars
    /\ UNCHANGED sideVars

\* A request served by the handler class of create_tools
HandleRequestDecl(r) ==
    /\ declCreated
    /\ request = NoRequest
    /\ request' = [method |-> r.method, uri |-> r.uri, body |-> r.body, via |-> "decl"]
    /\ response' = decl_handle_request(decl, r)
    /\ UNCHANGED <<tools, tool_functions, regLog, decl, declCreated, value, envelope, again, out_schema, validated, builder, built>>
    /\ UNCHANGED stepVars
    /\ UNCHANGED sideVars

\* The hosting layer takes the response; the next request can be served.
Deliver ==
    /\ request /= NoRequest
    /\ request' = NoRequest
    /\ response' = NoResponse
    /\ UNCHANGED <<tools, tool_functions, regLog, decl, declCreated, value, envelope, again, out_schema, validated, builder, built>>
    /\ UNCHANGED stepVars
    /\ UNCHANGED sideVars

Next ==
    \/ \E call \in DecoratorCalls : Register(call)
    \/ \E mapping \in DeclMappings : CreateTools(mapping)
    \/ \E r \in Requests : HandleRequestFTL(r)
    \/ \E r \in DeclRequests : HandleRequestDecl(r)
    \/ Deliver

Spec == Init /\ [][Next]_vars

----------------------------------------------------------------------------
(* The envelope builder on its own: _convert_result_to_toolresult applied  *)
(* to a value, and to the envelope it gave.                                 *)

\* The longest list among the values.
MaxLen == 1

\* The most keys a mapping among the values has.
MaxKeys == 2

ListItems == {PyInt(1), PyStr("a"), PyObj("set", "{1}")}

KeyNames == {"content", "result", "x"}

DictVals ==
    {PyNone, PyInt(5), PyStr("hi"), PyList(<<TextBlock(PyStr("hi"))>>),
     PyDict(<<"result">>, <<PyInt(1)>>), PyObj("set", "{1}")}

SeqsUpTo(S, n) == UNION {[1..k -> S] : k \in 0..n}

Values ==
    {PyNone, PyBool(TRUE), PyBool(FALSE), PyInt(0), PyInt(5), PyFloat("1.5"),
     PyStr(""), PyStr("hi"), PyObj("set", "{1}")}
    \cup {PyList(items) : items \in SeqsUpTo(ListItems, MaxLen)}
    \cup {PyDict(ks, vs) :
            <<ks, vs>> \in UNION {
                {kv \in [1..k -> KeyNames] \X [1..k -> DictVals] :
                    \A i, j \in 1..k : kv[1][i] = kv[1][j] => i = j}
                : k \in 0..MaxKeys}}

InitEnvelope ==
    /\ tools = EmptyDict
    /\ tool_functions = EmptyDict
    /\ regLog = <<>>
    /\ decl = <<>>
    /\ declCreated = FALSE
    /\ request = NoRequest
    /\ response = NoResponse
    /\ value \in Values
    /\ envelope = NotRun
    /\ again = NotRun
    /\ out_schema = PyNone
    /\ validated = NotRun
    /\ builder = NewToolResult
    /\ built = NotRun
    /\ phases = <<>>
    /\ calls = 0
    /\ emitted = 0
    /\ pending = NotRun
    /\ awaiting = FALSE
    /\ hint = Ty("Any")
    /\ fragment = NotRun
    /\ slots = <<>>
    /\ handler_class = [made |-> FALSE, seen |-> <<>>]
    /\ default_tools = <<>>
    /\ raised = NotRun

\* envelope = ftl._convert_result_to_toolresult(value)
ToEnvelope ==
    /\ envelope = NotRun
    /\ envelope' = convert_result_to_toolresult(value)
    /\ UNCHANGED <<tools, tool_functions, regLog, decl, declCreated, request, response,
                   value, again, out_schema, validated, builder, built>>
    /\ UNCHANGED stepVars
    /\ UNCHANGED sideVars

\* again = ftl._convert_result_to_toolresult(envelope)
ToEnvelopeAgain ==
    /\ envelope /= NotRun
    /\ envelope.ok
    /\ again = NotRun
    /\ again' = convert_result_to_toolresult(envelope.val)
    /\ UNCHANGED <<tools, tool_functions, regLog, decl, declCreated, request, response,
                   value, envelope, out_schema, validated, builder, built>>
    /\ UNCHANGED stepVars
    /\ UNCHANGED sideVars

NextEnvelope == ToEnvelope \/ ToEnvelopeAgain

SpecEnvelope == InitEnvelope /\ [][NextEnvelope]_vars

----------------------------------------------------------------------------
(* Output validation alone: _validate_output_against_schema applied to a    *)
(* value and an output schema.                                              *)

\* The schema of a wrapped primitive, as _validate_output_against_schema
\* reads it: x-ftl-wrapped, type object, properties.result.type.
WrappedSchema(t) ==
    PyDict(<<"type", "properties", "x-ftl-wrapped">>,
           <<PyStr("object"), PyDict(<<"result">>, <<Schema1(t)>>), PyBool(TRUE)>>)

OutputSchemas ==
    {PyNone}
    \cup {WrappedSchema(t) : t \in {"string", "integer", "number", "boolean"}}
    \cup {Schema1(t) : t \in {"string", "integer", "number", "boolean", "object", "array"}}
    \cup {PyDict(<<"type", "properties", "required">>,
                 <<PyStr("object"), PyDict(<<"x">>, <<Schema1("integer")>>),
                   PyList(<<PyStr("x")>>)>>),
          PyDict(<<"type", "items">>, <<PyStr("array"), Schema1("string")>>)}

InitValidate ==
    /\ tools = EmptyDict
    /\ tool_functions = EmptyDict
    /\ regLog = <<>>
    /\ decl = <<>>
    /\ declCreated = FALSE
    /\ request = NoRequest
    /\ response = NoResponse
    /\ value \in Values
    /\ envelope = NotRun
    /\ again = NotRun
    /\ out_schema \in OutputSchemas
    /\ validated = NotRun
    /\ builder = NewToolResult
    /\ built = NotRun
    /\ phases = <<>>
    /\ calls = 0
    /\ emitted = 0
    /\ pending = NotRun
    /\ awaiting = FALSE
    /\ hint = Ty("Any")
    /\ fragment = NotRun
    /\ slots = <<>>
    /\ handler_class = [made |-> FALSE, seen |-> <<>>]
    /\ default_tools = <<>>
    /\ raised = NotRun

\* validated = ftl._validate_output_against_schema(value, out_schema)
Validate ==
    /\ validated = NotRun
    /\ validated' = validate_output_against_schema(value, out_schema)
    /\ UNCHANGED <<tools, tool_functions, regLog, decl, declCreated, request, response,
                   value, envelope, again, out_schema, builder, built>>
    /\ UNCHANGED stepVars
    /\ UNCHANGED sideVars

NextValidate == Validate

SpecValidate == InitValidate /\ [][NextValidate]_vars

----------------------------------------------------------------------------
(* The ToolResult builder alone: a tool makes builder calls on a new        *)
(* ToolResult, builds the mapping, and the wrapper of the tool makes the    *)
(* envelope of what was built.                                              *)

\* The most builder calls made on one ToolResult.
MaxCalls == 2

Call(op, a, b, annotations) == [op |-> op, a |-> a, b |-> b, annotations |-> annotations]

\* The builder calls of the programs modelled.
BuilderCalls ==
    {Call("text", PyStr("Process completed"), PyNone, PyNone),
     Call("add_text", PyStr("Details"), PyNone, PyDict(<<"priority">>, <<PyFloat("0.8")>>)),
     Call("image", PyStr("base64data"), PyStr("image/png"), PyNone),
     Call("audio", PyStr("base64data"), PyStr("audio/wav"), PyNone),
     Call("resource", PyDict(<<"uri">>, <<PyStr("file:///example.txt")>>), PyNone, PyNone),
     Call("with_structured", PyDict(<<"status", "count">>, <<PyStr("success"), PyInt(42)>>),
          PyNone, PyNone),
     Call("with_progress", PyInt(90), PyNone, PyNone),
     Call("with_progress", PyInt(150), PyNone, PyNone),
     Call("with_meta", PyDict(<<"trace">>, <<PyStr("t1")>>), PyNone, PyNone),
     Call("with_meta", PyDict(<<>>, <<>>), PyNone, PyNone),
     Call("error", PyStr("Something went wrong"), PyNone, PyNone),
     Call("error", PyStr("Something went wrong"), PyDict(<<"code">>, <<PyInt(500)>>),
          PyNone)}

InitBuilder == Init

\* builder.<op>(...)
BuilderStep(c) ==
    /\ builder.calls < MaxCalls
    /\ built = NotRun
    /\ builder' = BuilderCall(builder, c)
    /\ UNCHANGED <<tools, tool_functions, regLog, decl, declCreated, request, response,
                   value, envelope, again, out_schema, validated, built>>
    /\ UNCHANGED stepVars
    /\ UNCHANGED sideVars

\* built = builder.build()
Build ==
    /\ built = NotRun
    /\ built' = Ok(ToolResultBuild(builder))
    /\ UNCHANGED <<tools, tool_functions, regLog, decl, declCreated, request, response,
                   value, envelope, again, out_schema, validated, builder>>
    /\ UNCHANGED stepVars
    /\ UNCHANGED sideVars

\* The tool returns what it built: envelope =
\* ftl._convert_result_to_toolresult(built)
ConvertBuilt ==
    /\ built /= NotRun
    /\ envelope = NotRun
    /\ value' = built.val
    /\ envelope' = convert_result_to_toolresult(built.val)
    /\ UNCHANGED <<tools, tool_functions, regLog, decl, declCreated, request, response,
                   again, out_schema, validated, builder, built>>
    /\ UNCHANGED stepVars
    /\ UNCHANGED sideVars

NextBuilder ==
    \/ \E c \in BuilderCalls : BuilderStep(c)
    \/ Build
    \/ ConvertBuilt

SpecBuilder == InitBuilder /\ [][NextBuilder]_vars

----------------------------------------------------------------------------
(* The steps of one request through the dispatcher of FTL.create_handler(): *)
(* handle_request is followed statement by statement, and a handler whose   *)
(* function is asynchronous is suspended at its await until the function    *)
(* completes.  The registry is that of a module whose decorators have run.  *)

BareCall(fid) == [fid |-> fid, name |-> PyNone, description |-> PyNone, annotations |-> PyNone]

\* The decorator calls of the modules modelled, in order.
Programs ==
    { <<BareCall("add_numbers"), BareCall("afetch"), BareCall("boom")>>,
      <<BareCall("afetch"), BareCall("bad_int"), BareCall("unser"), BareCall("wrapped")>>,
      <<BareCall("get_user_info"),
        [fid |-> "passthru", name |-> PyNone, description |-> PyNone,
         annotations |-> PyDict(<<"tags">>, <<PyObj("set", "{'a'}")>>)]>> }

StoreDefinition(registry, definition) ==
    StoreTool(registry, DictAt(definition, "name").s, definition)

RECURSIVE ToolsAfter(_, _)
\* self._tools after the first n decorator calls of a program
ToolsAfter(program, n) ==
    IF n = 0 THEN PyDict(<<>>, <<>>)
    ELSE StoreDefinition(ToolsAfter(program, n - 1),
                         tool_definition(program[n].fid, program[n].name,
                                         program[n].description, program[n].annotations))

RECURSIVE FunctionsAfter(_, _)
\* self._tool_functions after the first n decorator calls of a program
FunctionsAfter(program, n) ==
    IF n = 0 THEN PyDict(<<>>, <<>>)
    ELSE DictSet(FunctionsAfter(program, n - 1),
                 IF Truthy(program[n].name) THEN program[n].name.s
                 ELSE Func(program[n].fid).fname,
                 Closure(program[n].fid, <<>>))

InitSteps ==
    /\ \E program \in Programs :
          /\ tools = ToolsAfter(program, Len(program))
          /\ tool_functions = FunctionsAfter(program, Len(program))
          /\ regLog = [i \in 1..Len(program) |-> Logged(program[i])]
    /\ decl = <<>>
    /\ declCreated = FALSE
    /\ request = NoRequest
    /\ response = NoResponse
    /\ value = PyNone
    /\ envelope = NotRun
    /\ again = NotRun
    /\ out_schema = PyNone
    /\ validated = NotRun
    /\ builder = NewToolResult
    /\ built = NotRun
    /\ phases = <<>>
    /\ calls = 0
    /\ emitted = 0
    /\ pending = NotRun
    /\ awaiting = FALSE
    /\ hint = Ty("Any")
    /\ fragment = NotRun
    /\ slots = <<>>
    /\ handler_class = [made |-> FALSE, seen |-> <<>>]
    /\ default_tools = <<>>
    /\ raised = NotRun

Phase == IF phases = <<>> THEN "Idle" ELSE phases[Len(phases)]

\* The branch of handle_request a request takes.
RouteOf(registry, r) ==
    IF r.method = "GET" /\ (r.uri = <<"/">> \/ r.uri = <<>>) THEN "list"
    ELSE IF r.method = "POST"
    THEN IF DictHas(registry, Join(LStripSlash(r.uri))) THEN "execute" ELSE "not_found"
    ELSE "not_allowed"

\* The handler of the tool the request names: tools[tool_name]["handler"]
HandlerOf(registry, r) == DictAt(DictAt(registry, Join(LStripSlash(r.uri))), "handler")

\* The host calls handle_request(request).
Receive(r) ==
    /\ Phase \in {"Idle", "Responded", "Escaped"}
    /\ request' = [method |-> r.method, uri |-> r.uri, body |-> r.body, via |-> "ftl"]
    /\ response' = NoResponse
    /\ phases' = <<"Received">>
    /\ calls' = 0
    /\ emitted' = 0
    /\ pending' = NotRun
    /\ awaiting' = FALSE
    /\ UNCHANGED <<tools, tool_functions, regLog, decl, declCreated>>
    /\ UNCHANGED pureVars
    /\ UNCHANGED sideVars

\* path and method are read and the branch is chosen.
Route ==
    /\ Phase = "Received"
    /\ phases' = Append(phases, "Routed")
    /\ UNCHANGED <<tools, tool_functions, regLog, decl, declCreated, request, response,
                   calls, emitted, pending, awaiting>>
    /\ UNCHANGED pureVars
    /\ UNCHANGED sideVars

\* handle_request returns resp, or the exception of resp leaves it.
Returned(resp) ==
    /\ response' = resp
    /\ IF resp.raised = ""
       THEN phases' = Append(phases, "Responded") /\ emitted' = emitted + 1
       ELSE phases' = Append(phases, "Escaped") /\ emitted' = emitted

\* The branches that run no tool: the listing, 404 and 405.
AnswerDirectly ==
    /\ Phase = "Routed"
    /\ RouteOf(tools, request) /= "execute"
    /\ Returned(CASE RouteOf(tools, request) = "list" -> ftl_list_tools(tools)
                  [] RouteOf(tools, request) = "not_found" ->
                        NotFound(Join(LStripSlash(request.uri)))
                  [] OTHER -> MethodNotAllowed)
    /\ UNCHANGED <<tools, tool_functions, regLog, decl, declCreated, request,
                   calls, pending, awaiting>>
    /\ UNCHANGED pureVars
    /\ UNCHANGED sideVars

\* A dispatcher that does not run the coroutine of an asynchronous function:
\* the coroutine object itself is taken for the function's result.
StartCallNotAwaited(f, fid, input_data) ==
    IF f.isAsync
    THEN [awaiting |-> FALSE, pending |-> Ok(PyObj("coroutine", "<coroutine object>"))]
    ELSE [awaiting |-> FALSE, pending |-> CallFunction(fid, input_data)]

\* What handler(input_data) has done when control is back in handle_request
\* or in the event loop: the wrapper of a function has called it and holds
\* its outcome; the coroutine of an asynchronous function, run by
\* loop.run_until_complete, has called it and is suspended at its await.
StartCall(f, fid, input_data) ==
    IF f.isAsync
    THEN [awaiting |-> TRUE, pending |-> NotRun]
    ELSE [awaiting |-> FALSE, pending |-> CallFunction(fid, input_data)]

\* The try block up to the call of the handler; a body that does not parse
\* goes to the except clause.
ExecuteParsed(handler, input_data) ==
    IF ~input_data.ok
    THEN /\ phases' = phases \o <<"Executing", "Failed">>
         /\ response' = ExecutionFailed(input_data.err, <<>>, TRUE, FALSE)
         /\ UNCHANGED <<calls, pending, awaiting>>
    ELSE /\ phases' = Append(phases, "Executing")
         /\ calls' = calls + 1
         /\ pending' = StartCall(Func(handler.s), handler.s, input_data.val).pending
         /\ awaiting' = StartCall(Func(handler.s), handler.s, input_data.val).awaiting
         /\ UNCHANGED response

Execute ==
    /\ Phase = "Routed"
    /\ RouteOf(tools, request) = "execute"
    /\ ExecuteParsed(HandlerOf(tools, request),
                     JsonLoads(IF request.body /= "" THEN request.body ELSE "{}"))
    /\ UNCHANGED <<tools, tool_functions, regLog, decl, declCreated, request, emitted>>
    /\ UNCHANGED pureVars
    /\ UNCHANGED sideVars

\* The asynchronous function completes and the coroutine is resumed with its
\* outcome.
Complete ==
    /\ awaiting
    /\ awaiting' = FALSE
    /\ pending' = CallFunction(HandlerOf(tools, request).s,
                               JsonLoads(IF request.body /= "" THEN request.body
                                         ELSE "{}").val)
    /\ UNCHANGED <<tools, tool_functions, regLog, decl, declCreated, request, response,
                   phases, calls, emitted>>
    /\ UNCHANGED pureVars
    /\ UNCHANGED sideVars

\* The rest of the wrapper (validation, envelope) and of the try block
\* (json.dumps of the result), on what the wrapper returned.
Finished(wrapped, handler) ==
    /\ response' = ftl_respond(wrapped.env, handler.s, Func(handler.s).isAsync)
    /\ phases' = Append(phases,
                        IF wrapped.caught \/ ~JsonSerializable(wrapped.env)
                        THEN "Failed" ELSE "Succeeded")

Finish ==
    /\ Phase = "Executing"
    /\ ~awaiting
    /\ Finished(WrapperReturn(WrapperConvert(
                    WrapperValidate(pending, HandlerOf(tools, request).vals[1]))),
                HandlerOf(tools, request))
    /\ UNCHANGED <<tools, tool_functions, regLog, decl, declCreated, request,
                   calls, emitted, pending, awaiting>>
    /\ UNCHANGED pureVars
    /\ UNCHANGED sideVars

\* return Response(...)
Respond ==
    /\ Phase \in {"Succeeded", "Failed"}
    /\ phases' = Append(phases, "Responded")
    /\ emitted' = emitted + 1
    /\ UNCHANGED <<tools, tool_functions, regLog, decl, declCreated, request, response,
                   calls, pending, awaiting>>
    /\ UNCHANGED pureVars
    /\ UNCHANGED sideVars

NextSteps ==
    \/ \E r \in Requests : Receive(r)
    \/ Route
    \/ AnswerDirectly
    \/ Execute
    \/ Complete
    \/ Finish
    \/ Respond

SpecSteps == InitSteps /\ [][NextSteps]_vars

\* A step of handle_request as the phases show it: whenever the handler is
\* not suspended at the await, its next statement appends to the phases.
DispatcherAdvances ==
    /\ \/ Phase \in {"Received", "Routed", "Succeeded", "Failed"}
       \/ Phase = "Executing" /\ ~awaiting
    /\ \/ \E p \in {"Routed", "Executing", "Succeeded", "Failed", "Responded", "Escaped"} :
             phases' = Append(phases, p)
       \/ phases' = phases \o <<"Executing", "Failed">>

\* handle_request is straight-line code: once called it runs to its end
\* (each of its steps changes the phases, so fairness is stated on them),
\* and loop.run_until_complete resumes the coroutine when the function it
\* awaits completes.
SpecStepsFair == SpecSteps /\ WF_phases(DispatcherAdvances) /\ WF_vars(Complete)

----------------------------------------------------------------------------
(* The type-to-schema mapper alone: _python_type_to_json_schema applied to  *)
(* a type hint.                                                             *)

\* The deepest nesting of the type hints.
MaxNesting == 2

\* typing.Optional[T] as typing builds it: Optional[None] is NoneType and
\* the Optional of a Union is the flattened Union with None among its
\* alternatives.
TypingOptional(T) ==
    IF T = TyNone THEN TyNone
    ELSE IF T.t = "Union"
    THEN IF \E i \in 1..Len(T.args) : T.args[i] = TyNone THEN T
         ELSE [t |-> "Union", args |-> Append(T.args, TyNone)]
    ELSE TyOptional(T)

\* The hints without parameters: the classes of type_map, Any, a class the
\* mapper does not know, and the bare typing.List and typing.Dict.
PlainHints ==
    {Ty("str"), Ty("int"), Ty("float"), Ty("bool"), Ty("list"), Ty("dict"), TyNone,
     Ty("Any"), Ty("Decimal"), [t |-> "List", args |-> <<>>], [t |-> "Dict", args |-> <<>>]}

\* The unions of several non-null alternatives.
PlainUnions ==
    {TyUnion(Ty("int"), Ty("str")),
     [t |-> "Union", args |-> <<Ty("int"), Ty("str"), TyNone>>],
     [t |-> "Union", args |-> <<TyNone, Ty("float"), Ty("bool")>>]}

RECURSIVE HintsUpTo(_)
\* The hints nested at most d deep.
HintsUpTo(d) ==
    IF d = 0 THEN PlainHints
    ELSE LET inner == HintsUpTo(d - 1)
         IN  inner \cup PlainUnions
                   \cup {TyList(T) : T \in inner}
                   \cup {TypingOptional(T) : T \in inner}
                   \cup {TyDict(Ty("str"), T) : T \in inner}

InitTypes ==
    /\ tools = EmptyDict
    /\ tool_functions = EmptyDict
    /\ regLog = <<>>
    /\ decl = <<>>
    /\ declCreated = FALSE
    /\ request = NoRequest
    /\ response = NoResponse
    /\ value = PyNone
    /\ envelope = NotRun
    /\ again = NotRun
    /\ out_schema = PyNone
    /\ validated = NotRun
    /\ builder = NewToolResult
    /\ built = NotRun
    /\ phases = <<>>
    /\ calls = 0
    /\ emitted = 0
    /\ pending = NotRun
    /\ awaiting = FALSE
    /\ hint \in HintsUpTo(MaxNesting)
    /\ fragment = NotRun
    /\ slots = <<>>
    /\ handler_class = [made |-> FALSE, seen |-> <<>>]
    /\ default_tools = <<>>
    /\ raised = NotRun

\* fragment = self._python_type_to_json_schema(hint)
MapType ==
    /\ ~fragment.ok
    /\ fragment' = Ok(python_type_to_json_schema(hint))
    /\ UNCHANGED <<tools, tool_functions, regLog, decl, declCreated, request, response,
                   hint, slots>>
    /\ UNCHANGED registryVars
    /\ UNCHANGED pureVars
    /\ UNCHANGED stepVars

NextTypes == MapType

SpecTypes == InitTypes /\ [][NextTypes]_vars

----------------------------------------------------------------------------
(* Concurrent requests to the handler class of FTL.create_handler(): each   *)
(* call of handle_request runs on a thread of its own, with its own local   *)
(* variables and, for an asynchronous tool, its own PollLoop made the       *)
(* current loop of that thread; the registry is the one object they share.  *)

\* The most requests in flight together.
MaxConcurrent == 2

\* The requests made concurrently.
ConcurrentRequests ==
    {[method |-> "GET", uri |-> <<"/">>, body |-> ""],
     [method |-> "DELETE", uri |-> <<"/">>, body |-> ""],
     [method |-> "POST", uri |-> <<"/", "unknown">>, body |-> "{}"],
     [method |-> "POST", uri |-> <<"/", "add_numbers">>, body |-> "{\"a\": 2, \"b\": 3}"],
     [method |-> "POST", uri |-> <<"/", "boom">>, body |-> ""],
     [method |-> "POST", uri |-> <<"/", "afetch">>, body |-> "{\"name\": \"Alice\"}"],
     [method |-> "POST", uri |-> <<"/", "afetch">>, body |-> "{}"],
     [method |-> "POST", uri |-> <<"/", "afetch">>, body |-> "not json"]}

\* A thread that serves no request.
IdleSlot ==
    [phase |-> "Idle", request |-> NoRequest, loop |-> PyNone, pending |-> NotRun,
     response |-> NoResponse]

InitConcurrent ==
    /\ \E program \in Programs :
          /\ tools = ToolsAfter(program, Len(program))
          /\ tool_functions = FunctionsAfter(program, Len(program))
          /\ regLog = [i \in 1..Len(program) |-> Logged(program[i])]
    /\ decl = <<>>
    /\ declCreated = FALSE
    /\ request = NoRequest
    /\ response = NoResponse
    /\ value = PyNone
    /\ envelope = NotRun
    /\ again = NotRun
    /\ out_schema = PyNone
    /\ validated = NotRun
    /\ builder = NewToolResult
    /\ built = NotRun
    /\ phases = <<>>
    /\ calls = 0
    /\ emitted = 0
    /\ pending = NotRun
    /\ awaiting = FALSE
    /\ hint = Ty("Any")
    /\ fragment = NotRun
    /\ slots = [s \in 1..MaxConcurrent |-> IdleSlot]
    /\ handler_class = [made |-> FALSE, seen |-> <<>>]
    /\ default_tools = <<>>
    /\ raised = NotRun

\* The variables the threads do not touch.
notSlots ==
    <<tools, tool_functions, regLog, decl, declCreated, request, response, hint, fragment>>

\* The request of a thread runs the coroutine of an asynchronous tool.
RunsCoroutine(registry, r) ==
    /\ RouteOf(registry, r) = "execute"
    /\ JsonLoads(IF r.body /= "" THEN r.body ELSE "{}").ok
    /\ Func(HandlerOf(registry, r).s).isAsync

\* An outcome kept in one place for all the threads.
StoreOutcomeShared(all, s, outcome) ==
    [t \in DOMAIN all |-> [all[t] EXCEPT !.pending = outcome]]

\* result = await func(**input_data): the outcome is a local variable of
\* the coroutine of thread s.
StoreOutcome(all, s, outcome) == [all EXCEPT ![s].pending = outcome]

\* The host calls handle_request(r) on thread s.
ReceiveIn(s, r) ==
    /\ slots[s].phase = "Idle"
    /\ slots' = [slots EXCEPT ![s].phase = "Received", ![s].request = r]
    /\ UNCHANGED notSlots
    /\ UNCHANGED registryVars
    /\ UNCHANGED pureVars
    /\ UNCHANGED stepVars

\* handle_request up to its return, or up to the await of the coroutine it
\* runs on a new PollLoop.
StartIn(s) ==
    /\ slots[s].phase = "Received"
    /\ slots' = IF RunsCoroutine(tools, slots[s].request)
                THEN [slots EXCEPT ![s].phase = "Awaiting", ![s].loop = PyObj("PollLoop", "")]
                ELSE [slots EXCEPT ![s].phase = "Responded",
                                   ![s].response = ftl_handle_request(tools, slots[s].request)]
    /\ UNCHANGED notSlots
    /\ UNCHANGED registryVars
    /\ UNCHANGED pureVars
    /\ UNCHANGED stepVars

\* The asynchronous function of thread s completes.
CompleteIn(s) ==
    /\ slots[s].phase = "Awaiting"
    /\ slots' = [StoreOutcome(slots, s,
                              CallFunction(HandlerOf(tools, slots[s].request).s,
                                           JsonLoads(IF slots[s].request.body /= ""
                                                     THEN slots[s].request.body
                                                     ELSE "{}").val))
                 EXCEPT ![s].phase = "Completed"]
    /\ UNCHANGED notSlots
    /\ UNCHANGED registryVars
    /\ UNCHANGED pureVars
    /\ UNCHANGED stepVars

\* The rest of async_wrapper and of the try block of thread s.
FinishWith(s, handler, wrapped) ==
    slots' = [slots EXCEPT ![s].phase = "Responded",
                           ![s].response = ftl_respond(wrapped.env, handler.s, TRUE)]

FinishIn(s) ==
    /\ slots[s].phase = "Completed"
    /\ FinishWith(s, HandlerOf(tools, slots[s].request),
                  WrapperReturn(WrapperConvert(
                      WrapperValidate(slots[s].pending,
                                      HandlerOf(tools, slots[s].request).vals[1]))))
    /\ UNCHANGED notSlots
    /\ UNCHANGED registryVars
    /\ UNCHANGED pureVars
    /\ UNCHANGED stepVars

\* The host takes the response of thread s.
DeliverIn(s) ==
    /\ slots[s].phase = "Responded"
    /\ slots' = [slots EXCEPT ![s] = IdleSlot]
    /\ UNCHANGED notSlots
    /\ UNCHANGED registryVars
    /\ UNCHANGED pureVars
    /\ UNCHANGED stepVars

NextConcurrent ==
    \/ \E s \in 1..MaxConcurrent, r \in ConcurrentRequests : ReceiveIn(s, r)
    \/ \E s \in 1..MaxConcurrent : StartIn(s)
    \/ \E s \in 1..MaxConcurrent : CompleteIn(s)
    \/ \E s \in 1..MaxConcurrent : FinishIn(s)
    \/ \E s \in 1..MaxConcurrent : DeliverIn(s)

SpecConcurrent == InitConcurrent /\ [][NextConcurrent]_vars

----------------------------------------------------------------------------
(* The registry over the life of a module: decorator calls on an FTL        *)
(* instance that succeed or raise, decorator calls through the standalone   *)
(* `tool` on the default instance, create_handler(), and requests served by *)
(* the handler class between them.                                          *)

\* The most decorator calls on the instance that complete.
MaxDecorations == 3

\* The decorator calls on the instance: two functions under their own
\* names, a third function under the name of the first, and a function
\* under a name that begins with a slash.
RegistryCalls ==
    {BareCall("add_numbers"), BareCall("boom"),
     [fid |-> "opt", name |-> PyStr("add_numbers"), description |-> PyNone,
      annotations |-> PyNone],
     [fid |-> "add_numbers", name |-> PyStr("/x"), description |-> PyNone,
      annotations |-> PyNone]}

\* The decorator call through the standalone `tool`: another function under
\* a name the instance uses too.
DefaultCalls ==
    {[fid |-> "boom", name |-> PyStr("add_numbers"), description |-> PyNone,
      annotations |-> PyNone]}

\* What the decorated object makes the decorator raise: nothing, a NameError
\* of get_type_hints (an annotation that names nothing), a ValueError of
\* inspect.signature (a callable without a signature) or a TypeError of the
\* schema generation (an unhashable hint looked up in the type map).
Faults == {"none", "hints", "signature", "schema"}

FaultMessage(fault) ==
    CASE fault = "hints" -> "name 'Missing' is not defined"
      [] fault = "signature" -> "no signature found"
      [] OTHER -> "unhashable type: 'list'"

\* A decorator that stores the name with what it has before it reads the
\* hints, and completes the descriptor afterwards.
decorator_storing_first(registry, functions, call, fault) ==
    LET tool_name == IF Truthy(call.name) THEN call.name.s ELSE Func(call.fid).fname
        definition == tool_definition(call.fid, call.name, call.description,
                                      call.annotations)
    IN  IF fault /= "none"
        THEN [tools |-> StoreTool(registry, tool_name,
                                  PyDict(<<"name">>, <<PyStr(tool_name)>>)),
              functions |-> functions,
              outcome |-> Raise(FaultMessage(fault))]
        ELSE [tools |-> StoreTool(registry, tool_name, definition),
              functions |-> DictSet(functions, tool_name, Closure(call.fid, <<>>)),
              outcome |-> Ok(decorator_returns(call.fid, definition))]

\* decorator(f) of FTL.tool on an instance whose tables are registry and
\* functions: the tables afterwards and what the call returns or raises.
\* Every statement that can raise comes before the two stores.
decorator(registry, functions, call, fault) ==
    LET tool_name == IF Truthy(call.name) THEN call.name.s ELSE Func(call.fid).fname
        definition == tool_definition(call.fid, call.name, call.description,
                                      call.annotations)
    IN  IF fault /= "none"
        THEN [tools |-> registry, functions |-> functions,
              outcome |-> Raise(FaultMessage(fault))]
        ELSE [tools |-> StoreTool(registry, tool_name, definition),
              functions |-> DictSet(functions, tool_name, Closure(call.fid, <<>>)),
              outcome |-> Ok(decorator_returns(call.fid, definition))]

\* A handler class that keeps the registry as it was when it was created.
HandlerRegistryCopied(seen, live) == seen

\* tools = self._tools: the handler class holds the dictionary itself, so
\* it reads what the dictionary holds when the request is served.
HandlerRegistry(seen, live) == live

\* The requests served.
RegistryRequests ==
    {[method |-> "GET", uri |-> <<"/">>, body |-> ""],
     [method |-> "POST", uri |-> <<"/", "/", "x">>, body |-> "{\"a\": 2, \"b\": 3}"]}
    \cup {[method |-> "POST", uri |-> <<"/", n>>, body |-> "{\"a\": 2, \"b\": 3}"] :
            n \in {"add_numbers", "boom"}}

\* What the latest decorator call on the instance gave its caller.
Attempt(call, outcome) ==
    [name |-> IF Truthy(call.name) THEN call.name.s ELSE Func(call.fid).fname,
     fid |-> call.fid, outcome |-> outcome]

InitRegistry ==
    /\ tools = PyDict(<<>>, <<>>)
    /\ tool_functions = PyDict(<<>>, <<>>)
    /\ regLog = <<>>
    /\ decl = <<>>
    /\ declCreated = FALSE
    /\ request = NoRequest
    /\ response = NoResponse
    /\ value = PyNone
    /\ envelope = NotRun
    /\ again = NotRun
    /\ out_schema = PyNone
    /\ validated = NotRun
    /\ builder = NewToolResult
    /\ built = NotRun
    /\ phases = <<>>
    /\ calls = 0
    /\ emitted = 0
    /\ pending = NotRun
    /\ awaiting = FALSE
    /\ hint = Ty("Any")
    /\ fragment = NotRun
    /\ slots = <<>>
    /\ handler_class = [made |-> FALSE, seen |-> PyDict(<<>>, <<>>)]
    /\ default_tools = PyDict(<<>>, <<>>)
    /\ raised = Attempt(BareCall("add_numbers"), NotRun)

\* The variables no step of the registry's life touches.
notRegistry == <<decl, declCreated, hint, fragment, slots>>

\* @ftl.tool(...) on f
DecorateWith(call, done) ==
    /\ tools' = done.tools
    /\ tool_functions' = done.functions
    /\ raised' = Attempt(call, done.outcome)
    /\ regLog' = IF done.outcome.ok THEN Append(regLog, Logged(call)) ELSE regLog

Decorate(call, fault) ==
    /\ Len(regLog) < MaxDecorations
    /\ DecorateWith(call, decorator(tools, tool_functions, call, fault))
    /\ request' = NoRequest
    /\ response' = NoResponse
    /\ UNCHANGED <<handler_class, default_tools>>
    /\ UNCHANGED notRegistry
    /\ UNCHANGED pureVars
    /\ UNCHANGED stepVars

\* @tool(...) on f: _default_ftl.tool(func, name=..., ...)
DecorateDefault(call) ==
    /\ default_tools' = decorator(default_tools, PyDict(<<>>, <<>>), call, "none").tools
    /\ request' = NoRequest
    /\ response' = NoResponse
    /\ UNCHANGED <<tools, tool_functions, regLog, handler_class, raised>>
    /\ UNCHANGED notRegistry
    /\ UNCHANGED pureVars
    /\ UNCHANGED stepVars

\* Handler = ftl.create_handler()
CreateHandler ==
    /\ ~handler_class.made
    /\ handler_class' = [made |-> TRUE, seen |-> tools]
    /\ UNCHANGED <<tools, tool_functions, regLog, request, response, default_tools, raised>>
    /\ UNCHANGED notRegistry
    /\ UNCHANGED pureVars
    /\ UNCHANGED stepVars

\* A request served by the handler class.
Serve(r) ==
    /\ handler_class.made
    /\ request' = [method |-> r.method, uri |-> r.uri, body |-> r.body, via |-> "ftl"]
    /\ response' = ftl_handle_request(HandlerRegistry(handler_class.seen, tools), r)
    /\ UNCHANGED <<tools, tool_functions, regLog, handler_class, default_tools, raised>>
    /\ UNCHANGED notRegistry
    /\ UNCHANGED pureVars
    /\ UNCHANGED stepVars

NextRegistry ==
    \/ \E call \in RegistryCalls, fault \in Faults : Decorate(call, fault)
    \/ \E call \in DefaultCalls : DecorateDefault(call)
    \/ CreateHandler
    \/ \E r \in RegistryRequests : Serve(r)

SpecRegistry == InitRegistry /\ [][NextRegistry]_vars

----------------------------------------------------------------------------
(* Properties of the dispatchers *)

\* The name a request asks for: its path without the leading slashes.
RequestedName ==
    LET uri == request.uri
        lead == CHOOSE k \in 0..Len(uri) :
                    /\ \A i \in 1..k : uri[i] = "/"
                    /\ k < Len(uri) => uri[k + 1] /= "/"
    IN  Join(SubSeq(uri, lead + 1, Len(uri)))

ViaFTL == request.via = "ftl"

ViaDecl == request.via = "decl"

\* The entries of the declarative mapping that answer to the requested name.
DeclEntries == SelectSeq(decl, LAMBDA e : effective_name(e) = PyStr(RequestedName))

\* The requested name is the name of a registered tool.
RequestedIsRegistered ==
    \/ ViaFTL /\ DictHas(tools, RequestedName)
    \/ ViaDecl /\ DeclEntries /= <<>>

\* The request body as the dispatcher parses it.
ParsedBody == JsonLoads(IF request.body = "" THEN "{}" ELSE request.body)

\* The registered handler the request is for (decorator form).
RequestedHandler == DictAt(DictAt(tools, RequestedName), "handler")

\* What the underlying function, output validation and envelope building make
\* of the request's arguments (decorator form): an envelope or a failure.
FtlAttempt ==
    WrapperConvert(WrapperValidate(CallFunction(RequestedHandler.s, ParsedBody.val),
                                   RequestedHandler.vals[1]))

\* What the declared handler makes of the request's arguments.
DeclAttempt == DeclHandlerCall(DictAt(DeclEntries[1].def, "handler").s, ParsedBody.val)

FailureResponse(msg) ==
    /\ response.status = 400
    /\ response.json = ToolResponseError(PyStr("Tool execution failed: " \o msg))

\* C1: a POST to a registered tool whose function raises, or whose result
\* fails validation or normalization, is answered 400 with the error envelope
\* "Tool execution failed: <message>", in the decorator form and in the
\* create_tools form alike.
C1_FailingToolAnswers400 ==
    /\ (/\ ViaFTL /\ request.method = "POST" /\ RequestedIsRegistered
        /\ ParsedBody.ok /\ ~FtlAttempt.ok)
       => FailureResponse(FtlAttempt.err)
    /\ (/\ ViaDecl /\ request.method = "POST" /\ RequestedIsRegistered
        /\ ParsedBody.ok /\ DictHas(DeclEntries[1].def, "handler") /\ ~DeclAttempt.ok)
       => FailureResponse(DeclAttempt.err)

\* C2: handle_request returns a response object for every request; no
\* exception leaves the dispatcher.
C2_NoFailureEscapes ==
    request /= NoRequest =>
        /\ response.raised = ""
        /\ response.status \in {200, 400, 404, 405}

\* C3: a POST for a name that is not registered is answered 404 with the
\* error envelope "Tool '<name>' not found"; no handler is invoked and the
\* body is not parsed.
C3_UnknownToolIs404 ==
    (request.method = "POST" /\ ~RequestedIsRegistered) =>
        /\ response.status = 404
        /\ response.raised = ""
        /\ response.json =
              PyDict(<<"content", "isError">>,
                     <<PyList(<<PyDict(<<"type", "text">>,
                                       <<PyStr("text"),
                                         PyStr("Tool '" \o RequestedName \o "' not found")>>)>>),
                       PyBool(TRUE)>>)
        /\ response.invoked = <<>>
        /\ ~response.parsed

\* A 404 given by a registry that holds tools, for a path of two leading
\* slashes and a body that is not JSON.
C3_Witness ==
    /\ ViaFTL /\ request.method = "POST"
    /\ request.uri = <<"/", "/", "add_numbers">>
    /\ request.body = "not json"
    /\ tools.keys = <<"opt">>
    /\ response.status = 404

\* C4: every method other than GET and POST, and GET on a path other than
\* "/" or "", is answered 405 with allow "GET, POST" and the JSON-RPC error
\* body; no handler is invoked.
C4_OtherRoutesAre405 ==
    (/\ request /= NoRequest
     /\ \/ request.method \notin {"GET", "POST"}
        \/ request.method = "GET" /\ request.uri \notin {<<"/">>, <<>>}) =>
        /\ response.status = 405
        /\ response.raised = ""
        /\ DictHas(response.headers, "allow")
        /\ DictAt(response.headers, "allow") = PyStr("GET, POST")
        /\ response.json =
              PyDict(<<"error">>,
                     <<PyDict(<<"code", "message">>,
                              <<PyInt(-32601), PyStr("Method not allowed")>>)>>)
        /\ response.body = "{\"error\": {\"code\": -32601, \"message\": \"Method not allowed\"}}"
        /\ response.invoked = <<>>

\* A GET of a registered tool's path, answered 405.
C4_Witness ==
    /\ ViaFTL /\ request.method = "GET"
    /\ request.uri = <<"/", "add_numbers">>
    /\ DictHas(tools, "add_numbers")
    /\ response.status = 405

----------------------------------------------------------------------------
(* Properties of the registry *)

\* The name a decorator call registers under.
CallName(call) == IF Truthy(call.name) THEN call.name.s ELSE Func(call.fid).fname

\* The names registered so far, each at the place of its first registration.
FirstRegistered ==
    LET firsts == SelectSeq([i \in 1..Len(regLog) |-> i],
                            LAMBDA i : \A j \in 1..(i - 1) :
                                          CallName(regLog[j]) /= CallName(regLog[i]))
    IN  [k \in 1..Len(firsts) |-> CallName(regLog[firsts[k]])]

\* The latest decorator call that registered under `name`.
LastCall(name) ==
    regLog[CHOOSE i \in 1..Len(regLog) :
              /\ CallName(regLog[i]) = name
              /\ \A j \in (i + 1)..Len(regLog) : CallName(regLog[j]) /= name]

IsListing == ViaFTL /\ request.method = "GET" /\ request.uri \in {<<"/">>, <<>>}

\* C5: after any registrations through FTL.tool, GET / answers 200 with
\* content-type application/json and one entry per registered name, in the
\* order of registration; an entry has name, description and inputSchema, no
\* key of value null, an annotations key only when annotations were given and
\* an outputSchema key only when an output schema was generated.
C5_ListingOfRegisteredTools ==
    IsListing =>
        /\ response.status = 200
        /\ DictGet(response.headers, "content-type", PyNone) = PyStr("application/json")
        /\ response.json.cls = "list"
        /\ [i \in 1..Len(response.json.vals) |-> DictGet(response.json.vals[i], "name", PyNone)]
             = [i \in 1..Len(FirstRegistered) |-> PyStr(FirstRegistered[i])]
        /\ \A i \in 1..Len(response.json.vals) :
              LET entry == response.json.vals[i]
                  call == LastCall(FirstRegistered[i])
              IN  /\ DictHas(entry, "description")
                  /\ DictHas(entry, "inputSchema")
                  /\ \A k \in 1..Len(entry.vals) : ~IsNone(entry.vals[k])
                  /\ DictHas(entry, "annotations") <=> ~IsNone(call.annotations)
                  /\ DictHas(entry, "outputSchema") <=> Func(call.fid).hasRet

\* C6: a registration under a name already registered replaces the whole
\* descriptor: the registry holds one descriptor per name, equal to the one
\* built by the latest registration of the name (no key of an earlier one is
\* left), and POST /{name} calls the function registered last.
C6_LastRegistrationWins ==
    /\ \A i, j \in 1..Len(tools.keys) : tools.keys[i] = tools.keys[j] => i = j
    /\ {tools.keys[i] : i \in 1..Len(tools.keys)}
         = {CallName(regLog[i]) : i \in 1..Len(regLog)}
    /\ \A i \in 1..Len(tools.keys) :
          LET call == LastCall(tools.keys[i])
              f == Func(call.fid)
              d == tools.vals[i]
          IN  /\ DictAt(d, "name") = PyStr(tools.keys[i])
              /\ DictAt(d, "description") =
                    (IF Truthy(call.description) THEN call.description
                     ELSE IF Truthy(f.doc) THEN f.doc ELSE PyStr(""))
              /\ DictAt(d, "annotations") = call.annotations
              /\ DictAt(d, "handler").s = call.fid
              /\ DictHas(d, "outputSchema") <=> f.hasRet
              /\ d = tool_definition(call.fid, call.name, call.description, call.annotations)
              /\ DictAt(tool_functions, tools.keys[i]).s = call.fid
    /\ (ViaFTL /\ request.method = "POST" /\ RequestedIsRegistered /\ ParsedBody.ok)
       => response.invoked = <<LastCall(RequestedName).fid>>

\* add_numbers registered, then opt registered under the name add_numbers:
\* POST /add_numbers has called opt, and no outputSchema is left.
C6_Witness ==
    /\ Len(regLog) = 2
    /\ regLog[1].fid = "add_numbers"
    /\ regLog[2].fid = "opt" /\ regLog[2].name = PyStr("add_numbers")
    /\ tools.keys = <<"add_numbers">>
    /\ ~DictHas(tools.vals[1], "outputSchema")
    /\ ViaFTL /\ request.method = "POST" /\ request.uri = <<"/", "add_numbers">>
    /\ response.invoked = <<"opt">>
    /\ response.status = 200

\* The parameters a function declares, without an implicit first self.
DeclaredParams(f) ==
    IF f.params /= <<>> /\ f.params[1].pname = "self" THEN Tail(f.params) ELSE f.params

\* C7: the inputSchema of every registered function has type "object", its
\* properties are the declared parameters (but a first self) in declaration
\* order, `required` lists the parameters without a default, and is absent
\* when there is none.
C7_InputSchemaOfSignature ==
    \A i \in 1..Len(tools.keys) :
        LET schema == DictAt(tools.vals[i], "inputSchema")
            declared == DeclaredParams(Func(DictAt(tools.vals[i], "handler").s))
            lacking == SelectSeq(declared, LAMBDA p : ~p.hasDefault)
        IN  /\ DictGet(schema, "type", PyNone) = PyStr("object")
            /\ DictHas(schema, "properties")
            /\ DictAt(schema, "properties").keys = [k \in 1..Len(declared) |-> declared[k].pname]
            /\ IF lacking = <<>>
               THEN ~DictHas(schema, "required")
               ELSE /\ DictHas(schema, "required")
                    /\ DictAt(schema, "required")
                         = PyList([k \in 1..Len(lacking) |-> PyStr(lacking[k].pname)])

\* A registry with a function whose parameters all have defaults, and one of
\* a parameter with and a parameter without a default.
C7_Witness ==
    /\ DictHas(tools, "opt") /\ DictHas(tools, "afetch")
    /\ ~DictHas(DictAt(DictAt(tools, "opt"), "inputSchema"), "required")
    /\ DictAt(DictAt(DictAt(tools, "afetch"), "inputSchema"), "required")
         = PyList(<<PyStr("name")>>)

----------------------------------------------------------------------------
(* Properties of the envelopes *)

\* The function the request is for, and what it returns for the arguments
\* of the request (decorator form).
RequestedFunc == Func(RequestedHandler.s)

RequestedCall == CallFunction(RequestedHandler.s, ParsedBody.val)

InvokedFTL ==
    ViaFTL /\ request.method = "POST" /\ RequestedIsRegistered /\ ParsedBody.ok

\* C8: a tool of a function declared to return an integer, called with
\* valid arguments, answers a text-only envelope: one text block, the decimal
\* string of the integer, no structuredContent and no isError.
C8_IntegerResultIsTextOnly ==
    (/\ InvokedFTL
     /\ RequestedFunc.hasRet /\ RequestedFunc.ret = Ty("int")
     /\ RequestedCall.ok /\ RequestedCall.val.cls = "int") =>
        /\ response.status = 200
        /\ response.json =
              PyDict(<<"content">>,
                     <<PyList(<<PyDict(<<"type", "text">>,
                                       <<PyStr("text"),
                                         PyStr(ToString(RequestedCall.val.n))>>)>>)>>)

\* C9: a tool of a function declared to return a mapping answers, for every
\* returned mapping without a content key, an envelope whose
\* structuredContent is the mapping and whose one text block is its JSON
\* serialization with indent 2.
C9_MappingResultIsStructured ==
    (/\ InvokedFTL
     /\ RequestedFunc.hasRet /\ RequestedFunc.ret.t \in {"dict", "Dict"}
     /\ RequestedCall.ok /\ IsDict(RequestedCall.val)
     /\ ~DictHas(RequestedCall.val, "content")
     /\ JsonSerializable(RequestedCall.val)) =>
        /\ response.status = 200
        /\ response.json =
              PyDict(<<"content", "structuredContent">>,
                     <<PyList(<<PyDict(<<"type", "text">>,
                                       <<PyStr("text"),
                                         PyStr(JsonIndent2(RequestedCall.val, 0))>>)>>),
                       RequestedCall.val>>)

\* C10: a mapping that has a content key is returned as it is, and the
\* envelope of an envelope is that envelope.
C10_EnvelopeIdempotent ==
    /\ (envelope /= NotRun /\ IsDict(value) /\ DictHas(value, "content"))
       => envelope = Ok(value)
    /\ again /= NotRun => again = envelope

\* The builder applied twice to a wrapped primitive, whose envelope is not
\* the value itself.
C10_Witness ==
    /\ value = PyDict(<<"result">>, <<PyInt(5)>>)
    /\ again /= NotRun
    /\ again.ok
    /\ again.val /= value

----------------------------------------------------------------------------
(* Properties of the declarative form *)

RECURSIVE Underscored(_, _)
\* The key with "_" before every uppercase letter that is not its first
\* character.
Underscored(key, i) ==
    IF i > Len(key) THEN <<>>
    ELSE (IF i > 1 /\ IsUpper(key[i]) THEN <<"_", key[i]>> ELSE <<key[i]>>)
         \o Underscored(key, i + 1)

\* The name the rule gives an entry: its name field when it has one, else
\* the underscored key in lowercase.
RuleName(e) ==
    IF DictHas(e.def, "name") THEN DictAt(e.def, "name")
    ELSE LET u == Underscored(e.key, 1)
         IN  PyStr(Join([i \in 1..Len(u) |-> Lower(u[i])]))

IsDeclListing == ViaDecl /\ request.method = "GET" /\ request.uri \in {<<"/">>, <<>>}

\* C11: in the create_tools form the name of an entry is its name field
\* when present, else its key in snake_case; the listing shows that name for
\* every entry, and a POST is answered 404 exactly when no entry has the
\* requested name under that rule.
C11_EffectiveName ==
    /\ (IsDeclListing /\ response.status = 200) =>
          [i \in 1..Len(response.json.vals) |->
              DictGet(response.json.vals[i], "name", PyNone)]
            = [i \in 1..Len(decl) |-> RuleName(decl[i])]
    /\ (ViaDecl /\ request.method = "POST") =>
          (response.status = 404
             <=> \A i \in 1..Len(decl) : RuleName(decl[i]) /= PyStr(RequestedName))

\* A POST under the derived snake_case name of a key whose entry has another
\* explicit name.
C11_Witness ==
    /\ ViaDecl /\ request.method = "POST"
    /\ request.uri = <<"/", "reverse_text">>
    /\ \E i \in 1..Len(decl) :
          /\ Join(decl[i].key) = "reverseText"
          /\ DictGet(decl[i].def, "name", PyNone) = PyStr("reverse")
    /\ response.status = 404

\* C12: the listing of a create_tools dispatcher has no name twice.
C12_DeclListingNamesUnique ==
    (IsDeclListing /\ response.status = 200) =>
        \A i, j \in 1..Len(response.json.vals) :
            DictGet(response.json.vals[i], "name", PyNone)
              = DictGet(response.json.vals[j], "name", PyNone) => i = j

----------------------------------------------------------------------------
(* Properties of output validation *)

\* The primitive type a schema expects of the output: that of the result
\* property of a wrapped-primitive schema, else that of the schema itself.
ExpectedType ==
    IF ~IsDict(out_schema) THEN PyNone
    ELSE IF DictHas(out_schema, "x-ftl-wrapped")
    THEN DictGet(DictAt(DictAt(out_schema, "properties"), "result"), "type", PyNone)
    ELSE DictGet(out_schema, "type", PyNone)

\* C13: output validation rejects a boolean where an integer is expected
\* and an integer where a boolean is expected.
C13_ExactPrimitiveTypes ==
    validated /= NotRun =>
        /\ (ExpectedType = PyStr("integer") /\ value.cls = "bool")
              => validated = Raise("Expected integer, got bool")
        /\ (ExpectedType = PyStr("boolean") /\ value.cls = "int")
              => validated = Raise("Expected boolean, got int")

----------------------------------------------------------------------------
(* Properties of the envelopes built *)

\* An envelope with a non-empty content list, or one that carries
\* structuredContent and nothing else.
HasContentOrOnlyStructured(env) ==
    \/ /\ IsDict(env)
       /\ DictHas(env, "content")
       /\ DictAt(env, "content").cls = "list"
       /\ DictAt(env, "content").vals /= <<>>
    \/ /\ IsDict(env)
       /\ env.keys = <<"structuredContent">>

\* C14: every mapping ToolResult.build() returns, and every envelope
\* _convert_result_to_toolresult returns, has a non-empty content list unless
\* it carries only structuredContent.
C14_EnvelopeHasContent ==
    /\ built /= NotRun => HasContentOrOnlyStructured(built.val)
    /\ (envelope /= NotRun /\ envelope.ok) => HasContentOrOnlyStructured(envelope.val)

----------------------------------------------------------------------------
(* Properties of the error envelopes *)

\* The messages of the failures the request can meet once its tool is
\* found: of parsing the body, of the handler, of serializing its result.
FailuresOfRequest ==
    IF ~ParsedBody.ok THEN {ParsedBody.err}
    ELSE IF ViaFTL
    THEN IF ~FtlAttempt.ok THEN {FtlAttempt.err}
         ELSE IF ~JsonSerializable(FtlAttempt.val) THEN {JsonTypeError(FtlAttempt.val)}
         ELSE {}
    ELSE IF ~DictHas(DeclEntries[1].def, "handler") THEN {"'handler'"}
    ELSE IF ~DeclAttempt.ok THEN {DeclAttempt.err}
    ELSE IF ~JsonSerializable(DeclAttempt.val) THEN {JsonTypeError(DeclAttempt.val)}
    ELSE {}

\* The texts that describe the failure of the request.
FailureTexts ==
    IF ~RequestedIsRegistered
    THEN {"Tool '" \o RequestedName \o "' not found"}
    ELSE {"Tool execution failed: " \o m : m \in FailuresOfRequest}

\* isError is true and the content is one text block that describes the
\* failure of the request.
IsErrorEnvelope(env) ==
    /\ IsDict(env)
    /\ env.keys = <<"content", "isError">>
    /\ env.vals[2] = PyBool(TRUE)
    /\ env.vals[1].cls = "list"
    /\ Len(env.vals[1].vals) = 1
    /\ LET block == env.vals[1].vals[1]
       IN  /\ IsDict(block)
           /\ block.keys = <<"type", "text">>
           /\ block.vals[1] = PyStr("text")
           /\ block.vals[2].cls = "str"
           /\ block.vals[2].s \in FailureTexts

\* The wrapper of the requested tool caught a failure (decorator form).
WrapperCaught ==
    /\ ViaFTL /\ request.method = "POST" /\ RequestedIsRegistered
    /\ ParsedBody.ok /\ ~FtlAttempt.ok

\* C15: the body of every 404 and 400 response, and the envelope a handler
\* wrapper returns after catching a failure, has isError true and exactly one
\* content block, of type text, describing the failure.
C15_ErrorEnvelopeShape ==
    /\ (request /= NoRequest /\ response.status \in {400, 404})
          => IsErrorEnvelope(response.json)
    /\ WrapperCaught => IsErrorEnvelope(response.json)

\* The wrapper of a registered tool caught the failure of its function and
\* its envelope was sent.
C15_Witness ==
    /\ WrapperCaught
    /\ request.uri = <<"/", "boom">>
    /\ response.raised = ""
    /\ DictGet(response.json, "isError", PyNone) = PyBool(TRUE)

----------------------------------------------------------------------------
(* Properties of the steps of a request *)

\* handle_request has ended: it returned a response or an exception left it.
Ended == Phase \in {"Responded", "Escaped"}

\* The request as handle_request gets it.
Inbound == [method |-> request.method, uri |-> request.uri, body |-> request.body]

\* The steps give the response the dispatcher gives as a whole.
StepsAgreeWithHandler == Ended => response = ftl_handle_request(tools, Inbound)

\* The request is a POST with a body that parses, for a registered tool
\* whose function is asynchronous.
AsyncRequest ==
    /\ phases /= <<>>
    /\ InvokedFTL
    /\ RequestedFunc.isAsync

\* While the function has not completed nothing is validated, built or
\* sent; a response is built only from the outcome of the completed function,
\* after the coroutine was run to its end; no other request is ever
\* suspended.
AwaitedBeforeResponding ==
    /\ (AsyncRequest /\ awaiting) =>
          (emitted = 0 /\ response = NoResponse /\ pending = NotRun /\ Phase = "Executing")
    /\ (AsyncRequest /\ Phase \in {"Executing", "Succeeded", "Failed", "Responded"}
                     /\ ~awaiting) =>
          pending = RequestedCall
    /\ (AsyncRequest /\ response /= NoResponse) =>
          (~awaiting /\ response.awaited
           /\ response.json = WrapperReturn(FtlAttempt).env)
    /\ awaiting => AsyncRequest

\* C16: the handler of an asynchronous function is run to completion
\* before the response: validation and envelope building come after the
\* function has completed, nothing is sent before, the await is the only
\* suspension, and once the function completes the request is answered with
\* the envelope built from its result.
C16_AsyncAwaitedThenResponded ==
    /\ []AwaitedBeforeResponding
    /\ (AsyncRequest /\ awaiting)
          ~> (AsyncRequest /\ Phase = "Responded" /\ emitted = 1
              /\ response.json = WrapperReturn(FtlAttempt).env)

\* An asynchronous tool was awaited and answered with the envelope of its
\* result.
C16_Witness ==
    /\ AsyncRequest
    /\ Phase = "Responded"
    /\ request.body = "{\"name\": \"Alice\"}"
    /\ response.status = 200
    /\ response.awaited
    /\ DictGet(response.json, "structuredContent", PyNone)
          = PyDict(<<"result">>, <<PyStr("Alice")>>)

\* The chains of phases a request goes through.
PhaseChains ==
    {<<"Received", "Routed", "Responded">>,
     <<"Received", "Routed", "Executing", "Succeeded", "Responded">>,
     <<"Received", "Routed", "Executing", "Failed", "Responded">>}

\* C17: the function of a tool is called at most once per request, once
\* for a POST to a registered tool with a body that parses and not at all
\* otherwise; the request goes Received, Routed, (Executing, Succeeded or
\* Failed,) Responded and gets exactly one response.
C17_NoRetriesOneResponse ==
    /\ calls <= 1
    /\ emitted <= 1
    /\ \E chain \in PhaseChains : \E k \in 0..Len(chain) : phases = SubSeq(chain, 1, k)
    /\ Ended =>
          /\ Phase = "Responded"
          /\ emitted = 1
          /\ calls = IF InvokedFTL THEN 1 ELSE 0

----------------------------------------------------------------------------
(* Properties of the request body *)

\* The request is a POST for a registered tool, answered by handle_request.
PostToRegistered ==
    /\ request.method = "POST"
    /\ RequestedIsRegistered
    /\ response.raised = ""

\* The response of the dispatcher in use to the same request with body b.
ResponseToBody(b) ==
    LET r == [method |-> request.method, uri |-> request.uri, body |-> b]
    IN  IF ViaFTL THEN ftl_handle_request(tools, r) ELSE decl_handle_request(decl, r)

\* The declared handler the request is for (declarative form).
DeclaredHandler == DictAt(DeclEntries[1].def, "handler")

\* handler(**input_data) for a declared handler: a function of the
\* catalogue binds the keys to its parameters; the other handlers have the
\* one parameter input.
CalledWithNamedArguments(hid, input_data) ==
    IF hid \in FuncIds THEN CallFunction(hid, input_data)
    ELSE IF input_data.keys = <<"input">>
    THEN DeclHandlerCall(hid, input_data.vals[1])
    ELSE IF input_data.keys = <<>>
    THEN Raise(hid \o "() missing 1 required positional argument: 'input'")
    ELSE Raise(hid \o "() got an unexpected keyword argument '"
               \o SelectSeq(input_data.keys, LAMBDA k : k /= "input")[1] \o "'")

\* An empty body is answered as the body {} is.
EmptyBodyIsEmptyObject ==
    (PostToRegistered /\ request.body = "") => response = ResponseToBody("{}")

\* A body that is not JSON is answered 400 "Tool execution failed: ..."
\* and no function is called.
BadBodyIs400 ==
    (PostToRegistered /\ ~ParsedBody.ok) =>
        /\ response.status = 400
        /\ response.json
              = ToolResponseError(PyStr("Tool execution failed: " \o ParsedBody.err))
        /\ response.invoked = <<>>

\* The decorator form calls the function with the keys of the object as
\* named arguments.
ObjectIsNamedArgumentsFTL ==
    (PostToRegistered /\ ViaFTL /\ ParsedBody.ok /\ IsDict(ParsedBody.val)) =>
        /\ response.invoked = <<RequestedHandler.s>>
        /\ response.json = WrapperReturn(FtlAttempt).env
              \/ ~JsonSerializable(WrapperReturn(FtlAttempt).env)

\* The declarative form calls the handler with the keys of the object as
\* named arguments.
ObjectIsNamedArgumentsDecl ==
    (/\ PostToRegistered /\ ViaDecl /\ ParsedBody.ok /\ IsDict(ParsedBody.val)
     /\ DictHas(DeclEntries[1].def, "handler")) =>
        response = decl_respond(CalledWithNamedArguments(DeclaredHandler.s, ParsedBody.val),
                                DeclaredHandler.s)

----------------------------------------------------------------------------
(* Properties of the decorator itself *)

\* fn(**kwargs) for a function object: the function given to the decorator
\* binds the keyword arguments to its parameters and runs; the wrapper
\* built for it has the one parameter input_data and answers an envelope.
CallObject(fn, kwargs) ==
    IF fn.vals = <<>> THEN CallFunction(fn.s, kwargs)
    ELSE IF kwargs.keys = <<"input_data">>
    THEN Ok(HandlerWrapper(fn.s, fn.vals[1], kwargs.vals[1]).env)
    ELSE IF kwargs.keys = <<>>
    THEN Raise(fn.s \o "() missing 1 required positional argument: 'input_data'")
    ELSE Raise(fn.s \o "() got an unexpected keyword argument '"
               \o SelectSeq(kwargs.keys, LAMBDA k : k /= "input_data")[1] \o "'")

\* The arguments the decorated functions are called with directly.
DirectArguments ==
    {PyDict(<<>>, <<>>),
     PyDict(<<"a", "b">>, <<PyInt(2), PyInt(3)>>),
     PyDict(<<"name">>, <<PyStr("Alice")>>)}

\* The decorator call was of the bare form @ftl.tool.
IsBareCall(call) ==
    call.name = PyNone /\ call.description = PyNone /\ call.annotations = PyNone

\* The handler registered under the name of the call is the wrapper of the
\* call's function: another object than the function, closing over the
\* output schema.
HandlerIsWrapperOf(call) ==
    LET handler == DictAt(DictAt(tools, CallName(call)), "handler")
    IN  /\ handler.cls = "function"
        /\ handler.s = call.fid
        /\ Len(handler.vals) = 1
        /\ handler /= call.returned

\* C19: the decorator, bare or with arguments, returns the function it was
\* given: a direct call of the decorated function gives the function's own
\* outcome, not validated, not wrapped under "result" and not made an
\* envelope, while the handler of the registry entry is the wrapper.
C19_DecoratorReturnsFunction ==
    \A i \in 1..Len(regLog) :
        /\ regLog[i].returned = Closure(regLog[i].fid, <<>>)
        /\ \A kwargs \in DirectArguments :
              CallObject(regLog[i].returned, kwargs)
                 = CallBound(Func(regLog[i].fid), kwargs)
        /\ regLog[i] = LastCall(CallName(regLog[i])) => HandlerIsWrapperOf(regLog[i])

\* A bare and a parametrized decorator call were made; the decorated
\* functions called directly give 5 and the mapping of the user, and the
\* registered handler of the first gives an envelope.
C19_Witness ==
    /\ Len(regLog) = 2
    /\ regLog[1].fid = "add_numbers" /\ IsBareCall(regLog[1])
    /\ regLog[2].fid = "get_user_info" /\ ~IsBareCall(regLog[2])
    /\ CallObject(regLog[1].returned, PyDict(<<"a", "b">>, <<PyInt(2), PyInt(3)>>))
          = Ok(PyInt(5))
    /\ CallObject(regLog[2].returned, PyDict(<<"name">>, <<PyStr("Alice")>>))
          = Ok(PyDict(<<"name", "status">>, <<PyStr("Alice"), PyStr("active")>>))
    /\ DictHas(HandlerWrapper("add_numbers",
                              DictAt(DictAt(tools, "add_numbers"), "handler").vals[1],
                              PyDict(<<"a", "b">>, <<PyInt(2), PyInt(3)>>)).env,
               "content")

----------------------------------------------------------------------------
(* Properties of registration in the declarative form *)

\* A definition that cannot be served: it names no handler.
Malformed(entry) == ~DictHas(entry.def, "handler")

\* The failure of a definition without handler reported to a client.
MissingHandlerReported ==
    /\ ViaDecl
    /\ response.status = 400
    /\ response.json = ToolResponseError(PyStr("Tool execution failed: 'handler'"))

\* C20: a malformed declarative definition makes create_tools fail: no
\* handler class is ever created from a mapping with an entry without a
\* handler, and the missing handler never shows as the error response of a
\* request.
C20_MalformedDefinitionAbortsStartup ==
    /\ declCreated => \A i \in 1..Len(decl) : ~Malformed(decl[i])
    /\ ~MissingHandlerReported

----------------------------------------------------------------------------
(* Properties of the type-to-schema mapper *)

\* The schema fragment the mapper gave for the hint.
Mapped == fragment.ok

\* The alternatives of a union hint other than None.
NonNull(T) == SelectSeq(T.args, LAMBDA a : a /= TyNone)

\* The hint is Optional[T] = Union[T, None] for one type T.
IsOptionalHint(T) ==
    /\ T.t = "Union"
    /\ \E i \in 1..Len(T.args) : T.args[i] = TyNone
    /\ Len(NonNull(T)) = 1

\* The fragment has a scalar type: the value of its type key is a string.
HasScalarType(schema) == DictHas(schema, "type") /\ DictAt(schema, "type").cls = "str"

\* schema with the value of its type key replaced by [type, "null"], the
\* other keys and their order kept.
MadeNullable(schema) ==
    PyDict(schema.keys,
           [i \in 1..Len(schema.keys) |->
               IF schema.keys[i] = "type"
               THEN PyList(<<schema.vals[i], PyStr("null")>>)
               ELSE schema.vals[i]])

\* C21: for a type T whose fragment has a scalar type, the fragment of
\* Optional[T] is that of T with type replaced by the list [type, "null"],
\* every other key unchanged and no oneOf; a union of two or more non-null
\* alternatives is not made nullable.
C21_OptionalIsNullable ==
    /\ (Mapped /\ IsOptionalHint(hint)
        /\ HasScalarType(python_type_to_json_schema(NonNull(hint)[1]))) =>
          /\ fragment.val = MadeNullable(python_type_to_json_schema(NonNull(hint)[1]))
          /\ ~DictHas(fragment.val, "oneOf")
    /\ (Mapped /\ hint.t = "Union" /\ Len(NonNull(hint)) >= 2) =>
          /\ HasScalarType(fragment.val)
          /\ ~DictHas(fragment.val, "oneOf")

\* Optional[List[int]] was mapped: the items are kept beside the nullable
\* type.
C21_Witness ==
    /\ Mapped
    /\ hint = TyOptional(TyList(Ty("int")))
    /\ fragment.val = PyDict(<<"type", "items">>,
                            <<PyList(<<PyStr("array"), PyStr("null")>>),
                              Schema1("integer")>>)

\* The classes the mapper knows.
KnownClasses ==
    {Ty("str"), Ty("int"), Ty("float"), Ty("bool"), Ty("list"), Ty("dict"), TyNone}

\* C22: the mapper gives a fragment with a type key for every hint;
\* List[T] gives {type: array, items: the fragment of T}, and a hint it
\* does not recognize (Any, an unknown class, a union of several non-null
\* alternatives) gives exactly {type: object}.
C22_MapperIsTotal ==
    Mapped =>
        /\ IsDict(fragment.val)
        /\ DictHas(fragment.val, "type")
        /\ (hint.t = "List" /\ hint.args /= <<>>) =>
              fragment.val = PyDict(<<"type", "items">>,
                                    <<PyStr("array"),
                                      python_type_to_json_schema(hint.args[1])>>)
        /\ (hint.args = <<>> /\ hint \notin KnownClasses /\ hint.t \notin {"List", "Dict"}) =>
              fragment.val = Schema1("object")
        /\ (hint.t = "Union" /\ ~IsOptionalHint(hint)) => fragment.val = Schema1("object")

\* List[List[Decimal]] was mapped: arrays of arrays of objects.
C22_Witness ==
    /\ Mapped
    /\ hint = TyList(TyList(Ty("Decimal")))
    /\ fragment.val = PyDict(<<"type", "items">>,
                            <<PyStr("array"),
                              PyDict(<<"type", "items">>,
                                     <<PyStr("array"), Schema1("object")>>)>>)

----------------------------------------------------------------------------
(* Properties of output normalization *)

\* Validation has run on the value.
Normalized == validated /= NotRun

\* The schema describes a wrapped primitive.
IsWrappedSchema == IsDict(out_schema) /\ DictHas(out_schema, "x-ftl-wrapped")

\* The value is of the primitive type named t.
IsOfType(v, t) ==
    CASE t = PyStr("string") -> v.cls = "str"
      [] t = PyStr("integer") -> v.cls = "int"
      [] t = PyStr("number") -> v.cls \in {"int", "float"}
      [] t = PyStr("boolean") -> v.cls = "bool"
      [] t = PyStr("object") -> v.cls = "dict"
      [] t = PyStr("array") -> v.cls = "list"
      [] OTHER -> FALSE

\* The value is already a mapping with a result key.
AlreadyWrapped == IsDict(value) /\ DictHas(value, "result")

\* C23: without a schema the output is returned unchanged; under a
\* wrapped-primitive schema a bare value of the inner type is returned as
\* {result: value}, and an output that is already a mapping with a result
\* key is returned as it is: not wrapped again and not rejected.
C23_NormalizeWrapsOnce ==
    Normalized =>
        /\ out_schema = PyNone => validated = Ok(value)
        /\ (IsWrappedSchema /\ ~AlreadyWrapped /\ IsOfType(value, ExpectedType)) =>
              validated = Ok(PyDict(<<"result">>, <<value>>))
        /\ (IsWrappedSchema /\ AlreadyWrapped) => validated = Ok(value)

\* The messages of a mismatch with the schema type t.
MismatchMessages(t) ==
    {"Expected " \o label \o ", got " \o value.cls :
        label \in {t.s} \cup (IF t = PyStr("object") THEN {"object/dict"}
                              ELSE IF t = PyStr("array") THEN {"array/list"} ELSE {})}

\* C24: under a schema that is not a wrapped primitive the output is
\* returned unchanged exactly when its own type is the type the schema
\* names, whatever properties or items the schema has and whatever the
\* output holds; otherwise validation fails with "Expected <type>, got
\* <actual>".
C24_ShallowValidation ==
    (Normalized /\ IsDict(out_schema) /\ ~IsWrappedSchema) =>
        IF IsOfType(value, DictAt(out_schema, "type"))
        THEN validated = Ok(value)
        ELSE /\ ~validated.ok
             /\ validated.err \in MismatchMessages(DictAt(out_schema, "type"))

----------------------------------------------------------------------------
(* Properties of the order of the envelope rules *)

\* The envelope of one text block.
TextOnly(text) ==
    PyDict(<<"content">>,
           <<PyList(<<PyDict(<<"type", "text">>, <<PyStr("text"), PyStr(text)>>)>>)>>)

\* The envelope of one text block and structuredContent.
TextAndStructured(text, structured) ==
    PyDict(<<"content", "structuredContent">>,
           <<PyList(<<PyDict(<<"type", "text">>, <<PyStr("text"), PyStr(text)>>)>>),
             structured>>)

\* The envelope the rules give for a value, the first rule that matches
\* being applied.
EnvelopeByRules(v) ==
    IF v.cls = "dict" /\ \E i \in 1..Len(v.keys) : v.keys[i] = "content"
    THEN v
    ELSE IF v.cls = "dict" /\ v.keys = <<"result">>
    THEN TextAndStructured(IF v.vals[1].cls = "str" THEN v.vals[1].s ELSE PyRepr(v.vals[1]), v)
    ELSE IF v.cls = "str"
    THEN TextOnly(v.s)
    ELSE IF v.cls \in {"dict", "list"}
    THEN TextAndStructured(JsonIndent2(v, 0), v)
    ELSE IF v.cls \in {"int", "float", "bool"}
    THEN TextOnly(PyRepr(v))
    ELSE IF v.cls = "NoneType"
    THEN TextOnly("")
    ELSE TextOnly(PyRepr(v))

\* C25: the envelope builder gives an envelope for every value, the one of
\* the first rule that matches: pass-through of a mapping with content, the
\* wrapped primitive, the string, the other mappings and the sequences as
\* JSON text with structuredContent, numbers and booleans as their string
\* form, null as the empty text, anything else as its string form.
C25_EnvelopeRulesInOrder ==
    envelope /= NotRun => envelope = Ok(EnvelopeByRules(value))

----------------------------------------------------------------------------
(* Properties of concurrent requests *)

\* Every response given is the one the request gets when served alone.
ResponsesAsAlone ==
    \A s \in DOMAIN slots :
        slots[s].phase = "Responded" =>
            slots[s].response = ftl_handle_request(tools, slots[s].request)

\* No step of a request changes the registry.
RegistryKept == tools' = tools /\ tool_functions' = tool_functions

\* C26: handling requests never changes the registry, and whatever the
\* interleaving of the requests in flight, those for asynchronous tools
\* included, each request gets the response it gets when served alone.
C26_RequestsDoNotInterfere == []ResponsesAsAlone /\ [][RegistryKept]_vars

\* Two requests for the asynchronous tool are in flight together: one has
\* been answered with the failure of its call while the other, received
\* with other arguments, has completed and is not answered yet.
C26_Witness ==
    /\ slots /= <<>>
    /\ slots[1].phase = "Completed"
    /\ slots[1].request.body = "{\"name\": \"Alice\"}"
    /\ slots[1].pending = Ok(PyStr("Alice"))
    /\ slots[2].phase = "Responded"
    /\ slots[2].request.body = "{}"
    /\ slots[2].response.awaited
    /\ DictGet(slots[2].response.json, "isError", PyNone) = PyBool(TRUE)

----------------------------------------------------------------------------
(* Properties of the registry over the life of a module *)

\* The names of the entries of a listing.
ListedNames(r) == [i \in 1..Len(r.json.vals) |-> DictGet(r.json.vals[i], "name", PyNone)]

\* The table and every listing given hold the names in the order of their
\* first registration.
InFirstRegistrationOrder ==
    /\ tools.keys = FirstRegistered
    /\ (IsListing /\ response.status = 200) =>
           ListedNames(response) = [i \in 1..Len(FirstRegistered) |-> PyStr(FirstRegistered[i])]

\* A step leaves the names where they are or adds one new name at the end.
NamesKeepTheirPlaces ==
    \/ tools'.keys = tools.keys
    \/ \E n \in {CallName(call) : call \in RegistryCalls} :
          /\ ~DictHas(tools, n)
          /\ tools'.keys = Append(tools.keys, n)

\* C27: whatever the decorator calls made, the names are listed by GET / in
\* the order in which each distinct name was first registered: registering
\* a name again replaces its descriptor where it is, never moves it to the
\* end and never changes the order of the other names.
C27_ReRegistrationKeepsPosition ==
    []InFirstRegistrationOrder /\ [][NamesKeepTheirPlaces]_vars

\* A name was registered, then another, then the first again with another
\* function: the listing has the first name first, with the descriptor of
\* the third call.
C27_Witness ==
    /\ Len(regLog) = 3
    /\ CallName(regLog[1]) = CallName(regLog[3])
    /\ CallName(regLog[1]) /= CallName(regLog[2])
    /\ regLog[1].fid /= regLog[3].fid
    /\ IsListing
    /\ response.status = 200
    /\ ListedNames(response) = <<PyStr(CallName(regLog[1])), PyStr(CallName(regLog[2]))>>
    /\ DictAt(tools.vals[1], "handler").s = regLog[3].fid


\* A request has been served by the handler class of the instance.
Served == handler_class.made /\ ViaFTL

\* The function the instance's table holds under the requested name.
LiveFunction == DictAt(DictAt(tools, RequestedName), "handler").s

\* C28: the handler class reads the instance's table as it is when the
\* request is served, not as it was at create_handler(): GET / lists
\* exactly the names the table holds now, POST /{name} is answered 404
\* exactly when the table does not hold the name now and otherwise calls the
\* function the table holds now, and what the default instance of the
\* standalone decorator holds is neither listed nor called.
C28_HandlerReadsLiveRegistry ==
    Served =>
        /\ (IsListing /\ response.status = 200) =>
              /\ ListedNames(response) = [i \in 1..Len(tools.keys) |-> PyStr(tools.keys[i])]
              /\ \A i \in 1..Len(default_tools.keys) :
                    ~DictHas(tools, default_tools.keys[i]) =>
                        \A k \in 1..Len(response.json.vals) :
                            ListedNames(response)[k] /= PyStr(default_tools.keys[i])
        /\ request.method = "POST" =>
              /\ response.status = 404 <=> ~DictHas(tools, RequestedName)
              /\ DictHas(tools, RequestedName) => response.invoked = <<LiveFunction>>

\* The handler class was created before the tool was registered on the
\* instance, the default instance holds another function under the same
\* name, and POST /{name} has called the function of the instance.
C28_Witness ==
    /\ Served
    /\ request.method = "POST"
    /\ DictHas(tools, RequestedName)
    /\ ~DictHas(handler_class.seen, RequestedName)
    /\ DictHas(default_tools, RequestedName)
    /\ DictAt(DictAt(default_tools, RequestedName), "handler").s /= LiveFunction
    /\ response.status = 200
    /\ response.invoked = <<LiveFunction>>


\* The pieces of a tool name as a path holds them.
PiecesOf(name) == IF name = "/x" THEN <<"/", "x">> ELSE <<name>>

\* POST /{name} with an empty object for body.
PostTo(name) == [method |-> "POST", uri |-> <<"/">> \o PiecesOf(name), body |-> "{}"]

\* The names a request may ask for.
AskedNames ==
    {CallName(call) : call \in RegistryCalls} \cup {"x"}

\* The name is the name of an entry of the listing GET / gives.
IsListed(name) ==
    \E i \in 1..Len(ftl_list_tools(tools).json.vals) :
        ListedNames(ftl_list_tools(tools))[i] = PyStr(name)

\* C29: in every state of the registry, a name is in the listing of GET /
\* exactly when POST /{name} is routed to a tool (is not answered 404), and
\* the tool it is routed to is the one listed under the name; names that
\* begin with a slash included.
C29_ListingAndDispatchAgree ==
    \A name \in AskedNames :
        /\ IsListed(name) <=> ftl_handle_request(tools, PostTo(name)).status /= 404
        /\ IsListed(name) =>
              ftl_handle_request(tools, PostTo(name)).invoked
                  = <<DictAt(DictAt(tools, name), "handler").s>>


\* The table of tools and the table of original functions hold the same
\* names in the same order.
SameNames == tools.keys = tool_functions.keys

\* The latest decorator call raised.
LatestRaised == ~raised.outcome.ok /\ raised.outcome /= NotRun

\* A decorator call that raises, and any step that is no completed
\* decorator call, leaves both tables as they were.
FailureLeavesRegistry ==
    ((raised' /= raised /\ ~raised'.outcome.ok) \/ regLog' = regLog) =>
        /\ tools' = tools
        /\ tool_functions' = tool_functions

\* C30: a decorator call that raises (in type-hint resolution, signature
\* inspection or schema generation) gives the error to its caller and leaves
\* the registry exactly as it was: nothing is inserted, the descriptor an
\* earlier call stored under the name is kept, and the two tables always
\* hold the same names.
C30_FailedRegistrationChangesNothing ==
    /\ [](SameNames /\ (LatestRaised => \A i \in 1..Len(tools.keys) :
                            tools.vals[i] =
                                tool_definition(LastCall(tools.keys[i]).fid,
                                                LastCall(tools.keys[i]).name,
                                                LastCall(tools.keys[i]).description,
                                                LastCall(tools.keys[i]).annotations)))
    /\ [][FailureLeavesRegistry]_vars

\* A decorator call for a name the registry already holds for another
\* function has raised: the registry still holds the earlier function under
\* the name, and a second name beside it.
C30_Witness ==
    /\ LatestRaised
    /\ DictHas(tools, raised.name)
    /\ DictAt(DictAt(tools, raised.name), "handler").s /= raised.fid
    /\ DictAt(tool_functions, raised.name).s /= raised.fid
    /\ Len(tools.keys) = 2
    /\ SameNames

====
